---- MODULE Spec2Model ----
(***************************************************************************)
(* Client-side synchronisation core of the spaceship game (client-rust):   *)
(* the snapshot store and phase machine of network.rs, the reconnect logic *)
(* of network.rs and controller.rs, and the target lock of controller.rs,  *)
(* auto_aim.rs and Network::send_input.                                    *)
(*                                                                         *)
(* Numbers: positions and velocities are integers (world units), times are *)
(* integer milliseconds.  Option<T> is a sequence of length 0 (None) or 1  *)
(* (Some).  A HashMap<String, T> is a function whose domain is the key     *)
(* set.  A Vec<T> is a sequence.                                           *)
(***************************************************************************)
EXTENDS Integers, Sequences, FiniteSets, TLC

VARIABLES
    s,             \* state.rs GameState (the SharedState of the main client)
    phase_signal,  \* network.rs Network.phase_signal (reactive copy of s.phase)
    net,           \* network.rs Network: the installed channel
    c,             \* controller.rs ControllerState
    timers,        \* gloo_timers: the pending Timeouts, each with its callback
    boot,          \* which start-up calls have run, and the live Intervals
    aim,           \* auto_aim.rs AIM_STATE
    now,           \* performance.now(), integer milliseconds
    out,           \* frames handed to a channel by the last step
    last,          \* the last step taken and its input
    h              \* history: counters and per-id velocity history

vars == <<s, phase_signal, net, c, timers, boot, aim, now, out, last, h>>

----------------------------------------------------------------------------
(* Option and map helpers *)

None == << >>

Some(v) == <<v>>

UnwrapOr(o, d) == IF o = None THEN d ELSE o[1]

EmptyMap == << >>

Keys(m) == DOMAIN m

\* HashMap::insert
Insert(m, k, v) == [i \in (DOMAIN m) \cup {k} |-> IF i = k THEN v ELSE m[i]]

\* the ids carried by a Vec of records
IdsOf(recs) == {recs[i].id : i \in 1..Len(recs)}

\* the last record of a Vec with the given id (the one a HashMap keeps)
LastRec(recs, id) ==
    LET I == {i \in 1..Len(recs) : recs[i].id = id}
        m == CHOOSE i \in I : \A j \in I : j <= i
    IN  recs[m]

----------------------------------------------------------------------------
(* Program constants *)

INPUT_RATE == 20

RECONNECT_DELAY == 2000

JOYSTICK_SCALE == 3

DEAD_ZONE == 8

AIM_ORBIT_R == 360

AIM_DETECT_R == 150

AUTO_AIM_ORBIT_R == 360

AUTO_AIM_DETECT_R == 150

orbit_r == 360

detect_r == 150

JDIST_MIN == 5

INTERP_INTERVAL_INIT == 3333

ELAPSED_MIN == 10

ELAPSED_MAX == 200

----------------------------------------------------------------------------
(* Bounds *)

MaxTick == 3

MaxCloses == 2

MaxLoops == 1

MaxLoopsCounted == 3

----------------------------------------------------------------------------
(* state.rs *)

Phases == {"Lobby", "MatchLobby", "Countdown", "Playing", "Dead", "Result"}

\* GameMode::from_i32
GameModeFromI32(v) ==
    IF v = 1 THEN "TDM"
    ELSE IF v = 2 THEN "CTF"
    ELSE IF v = 3 THEN "WaveSurvival"
    ELSE "FFA"

\* cam_zoom is kept in units of 1/700 (canvas.rs line 41 divides by 700)
ZOOM_ONE == 700

\* interp_interval is kept exactly as the rational n / (100 * 5^k) ms
Pow5(k) == IF k = 0 THEN 1 ELSE IF k = 1 THEN 5 ELSE IF k = 2 THEN 25
           ELSE IF k = 3 THEN 125 ELSE IF k = 4 THEN 625 ELSE 3125

\* GameState::new
GameStateNew ==
    [ connected |-> FALSE, my_id |-> None, my_ship |-> 0, session_id |-> None,
      url_session_id |-> None, pending_name |-> None,
      players |-> EmptyMap, projectiles |-> EmptyMap, mobs |-> EmptyMap,
      asteroids |-> EmptyMap, pickups |-> EmptyMap, heal_zones |-> << >>,
      tick |-> 0,
      screen_w |-> 0, screen_h |-> 0,
      cam_x |-> 0, cam_y |-> 0, cam_zoom |-> ZOOM_ONE,
      mouse_x |-> 0, mouse_y |-> 0,
      firing |-> FALSE, boosting |-> FALSE, ability_pressed |-> FALSE,
      shift_pressed |-> FALSE, hyperspace_locked_r |-> None,
      phase |-> "Lobby", death_info |-> None,
      game_mode |-> "FFA", match_phase |-> 0, match_time_left |-> 0,
      countdown_time |-> 0, team_red_score |-> 0, team_blue_score |-> 0,
      is_ready |-> FALSE, match_result |-> None,
      controller_attached |-> FALSE, is_mobile |-> FALSE,
      touch_joystick |-> None,
      prev_players |-> EmptyMap, prev_mobs |-> EmptyMap,
      prev_cam_x |-> 0, prev_cam_y |-> 0,
      interp_last_update |-> 0,
      interp_interval |-> [n |-> INTERP_INTERVAL_INIT, k |-> 0],
      auth_token |-> None, auth_username |-> None, auth_player_id |-> 0 ]

----------------------------------------------------------------------------
(* network.rs handle_state: the snapshot store *)

\* HashMap::clear (lines 728, 733, 752, 764, 769, 780, 785)
ClearKeep(m) == m

Clear(m) == EmptyMap

\* lines 726-735: take prev, clear it, swap it with current.  The result is
\* <<new previous, new current>>.
SwapToPrevUnion(cur, prev) ==
    <<[i \in (DOMAIN cur) \cup (DOMAIN prev) |-> IF i \in DOMAIN cur THEN cur[i] ELSE prev[i]],
      EmptyMap>>

SwapToPrev(cur, prev) == <<cur, Clear(prev)>>

\* lines 755-760 / 771-776: backfill of one incoming record
MergeVelDrop(rec, prev) == rec

MergeVelWhole(rec, prev) ==
    IF (rec.vx = None \/ rec.vy = None) /\ rec.id \in DOMAIN prev
    THEN [rec EXCEPT !.vx = prev[rec.id].vx, !.vy = prev[rec.id].vy]
    ELSE rec

MergeVel(rec, prev) ==
    IF rec.vx = None \/ rec.vy = None
    THEN IF rec.id \in DOMAIN prev
         THEN [rec EXCEPT !.vx = IF rec.vx = None THEN prev[rec.id].vx ELSE rec.vx,
                          !.vy = IF rec.vy = None THEN prev[rec.id].vy ELSE rec.vy]
         ELSE rec
    ELSE rec

\* lines 753-762 / 770-778: the insert loop with backfill
RECURSIVE MergeInto(_, _, _)
MergeInto(recs, prev, acc) ==
    IF recs = << >> THEN acc
    ELSE MergeInto(Tail(recs), prev,
                   Insert(acc, Head(recs).id, MergeVel(Head(recs), prev)))

\* lines 764-767, 780-788: the plain insert loops
RECURSIVE InsertAll(_, _)
InsertAll(recs, acc) ==
    IF recs = << >> THEN acc
    ELSE InsertAll(Tail(recs), Insert(acc, Head(recs).id, Head(recs)))

\* lines 742-748: the smoothed interval estimate
InterpFoldInclusive(iv, last_update, t) ==
    IF last_update > 0
    THEN LET elapsed == t - last_update
         IN  IF elapsed >= ELAPSED_MIN /\ elapsed <= ELAPSED_MAX
             THEN [n |-> 4 * iv.n + elapsed * 100 * Pow5(iv.k), k |-> iv.k + 1]
             ELSE iv
    ELSE iv

InterpFold(iv, last_update, t) ==
    IF last_update > 0
    THEN LET elapsed == t - last_update
         IN  IF elapsed > ELAPSED_MIN /\ elapsed < ELAPSED_MAX
             THEN [n |-> 4 * iv.n + elapsed * 100 * Pow5(iv.k), k |-> iv.k + 1]
             ELSE iv
    ELSE iv

\* lines 797-822: camera, controller boost sync and the Playing/Dead flip
CameraAndPhaseNoRevive(st) ==
    IF st.my_id # None /\ st.my_id[1] \in DOMAIN st.players
    THEN LET me == st.players[st.my_id[1]]
             s1 == [st EXCEPT !.cam_x = me.x, !.cam_y = me.y]
             s2 == IF s1.controller_attached
                   THEN [s1 EXCEPT !.boosting = me.b, !.shift_pressed = me.b]
                   ELSE s1
         IN  IF ~me.a /\ s2.phase = "Playing"
             THEN [s2 EXCEPT !.phase = "Dead"]
             ELSE s2
    ELSE st

CameraAndPhase(st) ==
    IF st.my_id # None /\ st.my_id[1] \in DOMAIN st.players
    THEN LET me == st.players[st.my_id[1]]
             s1 == [st EXCEPT !.cam_x = me.x, !.cam_y = me.y]
             s2 == IF s1.controller_attached
                   THEN [s1 EXCEPT !.boosting = me.b, !.shift_pressed = me.b]
                   ELSE s1
         IN  IF ~me.a /\ s2.phase = "Playing"
             THEN [s2 EXCEPT !.phase = "Dead"]
             ELSE IF me.a /\ s2.phase = "Dead"
                  THEN [s2 EXCEPT !.phase = "Playing", !.death_info = None]
                  ELSE s2
    ELSE st

\* lines 723-823: the whole of handle_state as a function of the state
ApplySnapshotNewerOnly(st, gs, t) ==
    IF gs.tick <= st.tick THEN st ELSE
    LET pl == SwapToPrev(st.players, st.prev_players)
        mb == SwapToPrev(st.mobs, st.prev_mobs)
        s1 == [st EXCEPT
                 !.prev_players = pl[1],
                 !.prev_mobs = mb[1],
                 !.prev_cam_x = st.cam_x,
                 !.prev_cam_y = st.cam_y,
                 !.interp_interval = InterpFold(st.interp_interval, st.interp_last_update, t),
                 !.interp_last_update = t,
                 !.players = MergeInto(gs.p, pl[1], Clear(pl[2])),
                 !.projectiles = InsertAll(gs.pr, Clear(st.projectiles)),
                 !.mobs = MergeInto(gs.m, mb[1], Clear(mb[2])),
                 !.asteroids = InsertAll(gs.a, Clear(st.asteroids)),
                 !.pickups = InsertAll(gs.pk, Clear(st.pickups)),
                 !.heal_zones = gs.hz,
                 !.tick = gs.tick,
                 !.match_phase = gs.mp,
                 !.match_time_left = gs.tl,
                 !.team_red_score = gs.trs,
                 !.team_blue_score = gs.tbs]
    IN  CameraAndPhase(s1)

ApplySnapshot(st, gs, t) ==
    LET pl == SwapToPrev(st.players, st.prev_players)
        mb == SwapToPrev(st.mobs, st.prev_mobs)
        s1 == [st EXCEPT
                 !.prev_players = pl[1],
                 !.prev_mobs = mb[1],
                 !.prev_cam_x = st.cam_x,
                 !.prev_cam_y = st.cam_y,
                 !.interp_interval = InterpFold(st.interp_interval, st.interp_last_update, t),
                 !.interp_last_update = t,
                 !.players = MergeInto(gs.p, pl[1], Clear(pl[2])),
                 !.projectiles = InsertAll(gs.pr, Clear(st.projectiles)),
                 !.mobs = MergeInto(gs.m, mb[1], Clear(mb[2])),
                 !.asteroids = InsertAll(gs.a, Clear(st.asteroids)),
                 !.pickups = InsertAll(gs.pk, Clear(st.pickups)),
                 !.heal_zones = gs.hz,
                 !.tick = gs.tick,
                 !.match_phase = gs.mp,
                 !.match_time_left = gs.tl,
                 !.team_red_score = gs.trs,
                 !.team_blue_score = gs.tbs]
    IN  CameraAndPhase(s1)

----------------------------------------------------------------------------
(* Channels and timers (web_sys::WebSocket, gloo_timers) *)

\* WebSocket.readyState: 0, 1 (the value send_raw tests for) and 3
CONNECTING == "connecting"

OPEN == "open"

CLOSED == "closed"

\* WebSocket::new: a fresh channel object in the connecting state
NewChannel(n) == [id |-> n, ready |-> CONNECTING]

\* ws.ready_state() == 1 on the installed channel
ChannelOpen(ws) == ws # None /\ ws[1].ready = OPEN

\* gloo_timers::callback::Timeout::new(delay, f) followed by what the caller
\* does with the handle: a Timeout cancels itself (clearTimeout) when it is
\* dropped and keeps running when forget() is called on it.  The result is
\* the pending timeouts.
ScheduleTimeout(pending, delay, cb, handle) ==
    IF handle = "forget" THEN Append(pending, [delay |-> delay, cb |-> cb])
    ELSE pending

\* Network::new
NetworkNew == [ws |-> None]

----------------------------------------------------------------------------
(* History kept for the properties *)

NoVel == [vx |-> None, vy |-> None, gx |-> FALSE, gy |-> FALSE]

\* per id: the velocity most recently given explicitly, and whether the id
\* has been missing from a snapshot since then
VelHist(hm, recs) ==
    [id \in (DOMAIN hm) \cup IdsOf(recs) |->
        LET old == IF id \in DOMAIN hm THEN hm[id] ELSE NoVel
        IN  IF id \in IdsOf(recs)
            THEN LET r == LastRec(recs, id)
                 IN  [vx |-> IF r.vx # None THEN r.vx ELSE old.vx,
                      vy |-> IF r.vy # None THEN r.vy ELSE old.vy,
                      gx |-> IF r.vx # None THEN FALSE ELSE old.gx,
                      gy |-> IF r.vy # None THEN FALSE ELSE old.gy]
            ELSE [old EXCEPT !.gx = TRUE, !.gy = TRUE]]

\* left_session: the client has returned to the session lobby (match_phase
\* lobby of a free-for-all, or back navigation) and no welcome has followed
HistNew ==
    [pvel |-> EmptyMap, mvel |-> EmptyMap,
     net_closes |-> 0, net_connects |-> 0, net_sched |-> 0,
     ctl_closes |-> 0, ctl_connects |-> 0, ctl_sched |-> 0,
     phase_before |-> "Lobby", death_before |-> None,
     dropped_list |-> FALSE, discarded |-> FALSE, left_session |-> FALSE]

NoArg == << >>

Step(op, arg) == [op |-> op, arg |-> arg]

----------------------------------------------------------------------------
(* controller.rs ControllerState and auto_aim.rs AimState *)

CtrlPid == "me"

\* init_controller, lines 74-101
ControllerStateNew ==
    [ws |-> None, pid |-> CtrlPid, connected |-> FALSE, attached |-> FALSE,
     player_x |-> 0, player_y |-> 0, player_r |-> 0,
     enemies |-> << >>, lock_target_id |-> None,
     joystick_dx |-> 0, joystick_dy |-> 0, joystick_touch_id |-> None,
     fire_touch_id |-> None, firing |-> FALSE,
     boost_touch_id |-> None, boosting |-> FALSE, boost_locked_r |-> None]

\* app.rs App and controller.rs init_controller have not yet connected, the
\* canvases are not mounted, and no input Interval of the controller exists
BootNew ==
    [net_connected |-> FALSE, mounted |-> FALSE,
     ctrl_connected |-> FALSE, ctrl_loops |-> 0,
     storage |-> [auth_token |-> None, auth_username |-> None]]

\* AimState::default
AimStateNew == [target_id |-> None, target_x |-> 0, target_y |-> 0]

----------------------------------------------------------------------------
(* Initial state: GameState::new, Network::new, init_controller *)

Init ==
    /\ s = GameStateNew
    /\ phase_signal = "Lobby"
    /\ net = NetworkNew
    /\ c = ControllerStateNew
    /\ timers = << >>
    /\ boot = BootNew
    /\ aim = AimStateNew
    /\ now = 1000
    /\ out = << >>
    /\ last = Step("init", NoArg)
    /\ h = HistNew

----------------------------------------------------------------------------
(* Main client: Network::connect and the channel events *)

\* network.rs lines 141-149 (send_raw) / 151-158 (send_binary): handed to
\* the channel only when it exists and is open, dropped otherwise
SendOnAnyChannel(ws, frame) == IF ws # None THEN <<frame>> ELSE << >>

SendOn(ws, frame) == IF ChannelOpen(ws) THEN <<frame>> ELSE << >>

Envelope(tag, d) == [to |-> "net", t |-> tag, d |-> d]

\* network.rs lines 53-139 (Network::connect): a fresh channel object with
\* fresh callbacks is installed as the current one
NetConnectEff ==
    /\ net' = [net EXCEPT !.ws = Some(NewChannel(h.net_connects + 1))]
    /\ h' = [h EXCEPT !.net_connects = @ + 1]

\* app.rs line 83: the first call of Network::connect
NetConnect ==
    /\ ~boot.net_connected
    /\ NetConnectEff
    /\ boot' = [boot EXCEPT !.net_connected = TRUE]
    /\ out' = << >>
    /\ last' = Step("connect", NoArg)
    /\ UNCHANGED <<s, phase_signal, c, timers, aim, now>>

\* network.rs lines 71-78: a non-empty token in localStorage is sent
AuthOnOpen(ws, storage) ==
    IF storage.auth_token # None /\ storage.auth_token[1] # ""
    THEN SendOn(ws, Envelope("auth", [token |-> storage.auth_token[1]]))
    ELSE << >>

\* network.rs lines 64-85 (on_open): the channel is open when the handler
\* runs, so the stored auth token and the check for a session id from the
\* URL are handed to it.
NetWsOpen ==
    /\ net.ws # None /\ net.ws[1].ready = CONNECTING
    /\ net' = [net EXCEPT !.ws = Some([net.ws[1] EXCEPT !.ready = OPEN])]
    /\ s' = [s EXCEPT !.connected = TRUE]
    /\ out' = AuthOnOpen(net'.ws, boot.storage)
              \o (IF s.url_session_id # None
                  THEN SendOn(net'.ws, Envelope("check", [sid |-> s.url_session_id[1]]))
                  ELSE << >>)
    /\ last' = Step("open", NoArg)
    /\ UNCHANGED <<phase_signal, c, timers, boot, aim, now, h>>

\* network.rs line 118: `let _ = Timeout::new(..)` drops the handle at once
NetCloseHandle == "drop"

\* network.rs lines 111-121 (on_close); the channel fires close once, from
\* the connecting or the open state
NetWsCloseStaysConnected ==
    /\ net.ws # None /\ net.ws[1].ready \in {CONNECTING, OPEN}
    /\ h.net_closes < MaxCloses
    /\ net' = [net EXCEPT !.ws = Some([net.ws[1] EXCEPT !.ready = CLOSED])]
    /\ s' = s
    /\ timers' = ScheduleTimeout(timers, RECONNECT_DELAY, "Network::connect", NetCloseHandle)
    /\ h' = [h EXCEPT !.net_closes = @ + 1,
                      !.net_sched = @ + (Len(timers') - Len(timers))]
    /\ out' = << >>
    /\ last' = Step("close", NoArg)
    /\ UNCHANGED <<phase_signal, c, boot, aim, now>>

NetWsClose ==
    /\ net.ws # None /\ net.ws[1].ready \in {CONNECTING, OPEN}
    /\ h.net_closes < MaxCloses
    /\ net' = [net EXCEPT !.ws = Some([net.ws[1] EXCEPT !.ready = CLOSED])]
    /\ s' = [s EXCEPT !.connected = FALSE]
    /\ timers' = ScheduleTimeout(timers, RECONNECT_DELAY, "Network::connect", NetCloseHandle)
    /\ h' = [h EXCEPT !.net_closes = @ + 1,
                      !.net_sched = @ + (Len(timers') - Len(timers))]
    /\ out' = << >>
    /\ last' = Step("close", NoArg)
    /\ UNCHANGED <<phase_signal, c, boot, aim, now>>

\* network.rs lines 123-126 (on_error): logs only
NetWsError ==
    /\ net.ws # None /\ net.ws[1].ready \in {CONNECTING, OPEN}
    /\ out' = << >>
    /\ last' = Step("error_event", NoArg)
    /\ UNCHANGED <<s, phase_signal, net, c, timers, boot, aim, now, h>>

----------------------------------------------------------------------------
(* Remote controller: connect_ws and the channel events *)

\* controller.rs lines 142-237 (connect_ws)
CtrlConnectEff ==
    /\ c' = [c EXCEPT !.ws = Some(NewChannel(h.ctl_connects + 1))]
    /\ h' = [h EXCEPT !.ctl_connects = @ + 1]

\* controller.rs line 118: init_controller calls connect_ws
CtrlConnect ==
    /\ ~boot.ctrl_connected
    /\ CtrlConnectEff
    /\ boot' = [boot EXCEPT !.ctrl_connected = TRUE]
    /\ out' = << >>
    /\ last' = Step("ctrl_connect", NoArg)
    /\ UNCHANGED <<s, phase_signal, net, timers, aim, now>>

\* controller.rs lines 155-168 (on_open): sends the control request
CtrlWsOpen ==
    /\ c.ws # None /\ c.ws[1].ready = CONNECTING
    /\ c' = [c EXCEPT !.ws = Some([c.ws[1] EXCEPT !.ready = OPEN]),
                      !.connected = TRUE]
    /\ out' = <<[to |-> "ctrl", t |-> "control", pid |-> c.pid]>>
    /\ last' = Step("ctrl_open", NoArg)
    /\ UNCHANGED <<s, phase_signal, net, timers, boot, aim, now, h>>

\* controller.rs line 219: Timeout::new(..).forget()
CtrlCloseHandle == "forget"

\* controller.rs lines 206-220 (on_close)
CtrlWsClose ==
    /\ c.ws # None /\ c.ws[1].ready \in {CONNECTING, OPEN}
    /\ h.ctl_closes < MaxCloses
    /\ c' = [c EXCEPT !.ws = Some([c.ws[1] EXCEPT !.ready = CLOSED]),
                      !.connected = FALSE, !.attached = FALSE]
    /\ timers' = ScheduleTimeout(timers, RECONNECT_DELAY, "connect_ws", CtrlCloseHandle)
    /\ h' = [h EXCEPT !.ctl_closes = @ + 1,
                      !.ctl_sched = @ + (Len(timers') - Len(timers))]
    /\ out' = << >>
    /\ last' = Step("ctrl_close", NoArg)
    /\ UNCHANGED <<s, phase_signal, net, boot, aim, now>>

\* controller.rs lines 222-224 (on_error): logs only
CtrlWsError ==
    /\ c.ws # None /\ c.ws[1].ready \in {CONNECTING, OPEN}
    /\ out' = << >>
    /\ last' = Step("ctrl_error_event", NoArg)
    /\ UNCHANGED <<s, phase_signal, net, c, timers, boot, aim, now, h>>

\* a pending Timeout fires and runs its callback (network.rs lines 118-120,
\* controller.rs lines 217-219)
RemoveAt(q, i) == SubSeq(q, 1, i - 1) \o SubSeq(q, i + 1, Len(q))

TimeoutFire ==
    \E i \in 1..Len(timers) :
        /\ timers' = RemoveAt(timers, i)
        /\ IF timers[i].cb = "Network::connect"
           THEN NetConnectEff /\ UNCHANGED c
           ELSE CtrlConnectEff /\ UNCHANGED net
        /\ out' = << >>
        /\ last' = Step("timeout", timers[i].cb)
        /\ UNCHANGED <<s, phase_signal, boot, aim, now>>

\* network.rs lines 95-103 and 723-823: a binary frame that decodes to gs
HandleStateEffSilent(gs) ==
    /\ s' = ApplySnapshot(s, gs, now)
    /\ phase_signal' = phase_signal
    /\ h' = [h EXCEPT !.pvel = VelHist(h.pvel, gs.p), !.mvel = VelHist(h.mvel, gs.m),
                      !.phase_before = s.phase, !.death_before = s.death_info]

HandleStateEff(gs) ==
    /\ s' = ApplySnapshot(s, gs, now)
    /\ phase_signal' = IF s'.phase # s.phase THEN s'.phase ELSE phase_signal
    /\ h' = [h EXCEPT !.pvel = VelHist(h.pvel, gs.p), !.mvel = VelHist(h.mvel, gs.m),
                      !.phase_before = s.phase, !.death_before = s.death_info]

HandleState(gs) ==
    /\ ChannelOpen(net.ws)
    /\ HandleStateEff(gs)
    /\ out' = << >>
    /\ last' = Step("handle_state", gs)
    /\ UNCHANGED <<net, c, timers, boot, aim, now>>

----------------------------------------------------------------------------
(* network.rs handle_message: the phase machine *)

\* network.rs lines 365-374 (welcome)
WelcomeKeepsPhase(id, ship) ==
    /\ ChannelOpen(net.ws)
    /\ s' = [s EXCEPT !.my_id = Some(id), !.my_ship = ship]
    /\ phase_signal' = phase_signal
    /\ out' = << >>
    /\ last' = Step("welcome", [id |-> id, from |-> s.phase])
    /\ h' = [h EXCEPT !.left_session = FALSE]
    /\ UNCHANGED <<net, c, timers, boot, aim, now>>

Welcome(id, ship) ==
    /\ ChannelOpen(net.ws)
    /\ s' = [s EXCEPT !.my_id = Some(id), !.my_ship = ship, !.phase = "Playing"]
    /\ phase_signal' = "Playing"
    /\ out' = << >>
    /\ last' = Step("welcome", [id |-> id, from |-> s.phase])
    /\ h' = [h EXCEPT !.left_session = FALSE]
    /\ UNCHANGED <<net, c, timers, boot, aim, now>>

\* network.rs lines 375-387 (joined); the URL change is outside the model
Joined(sid) ==
    /\ ChannelOpen(net.ws)
    /\ s' = [s EXCEPT !.session_id = Some(sid)]
    /\ out' = << >>
    /\ last' = Step("joined", [sid |-> sid, from |-> s.phase])
    /\ UNCHANGED <<phase_signal, net, c, timers, boot, aim, now, h>>

\* network.rs lines 388-400 (created): the saved name is taken and a join
\* for the new session is sent
CreatedKeepsName(sid) ==
    /\ ChannelOpen(net.ws)
    /\ s' = [s EXCEPT !.url_session_id = Some(sid)]
    /\ out' = SendOn(net.ws, Envelope("join", [name |-> UnwrapOr(s.pending_name, "Pilot"),
                                               sid |-> sid]))
    /\ last' = Step("created", [sid |-> sid, from |-> s.phase,
                                pending |-> s.pending_name, url |-> s.url_session_id])
    /\ UNCHANGED <<phase_signal, net, c, timers, boot, aim, now, h>>

Created(sid) ==
    /\ ChannelOpen(net.ws)
    /\ s' = [s EXCEPT !.pending_name = None, !.url_session_id = Some(sid)]
    /\ out' = SendOn(net.ws, Envelope("join", [name |-> UnwrapOr(s.pending_name, "Pilot"),
                                               sid |-> sid]))
    /\ last' = Step("created", [sid |-> sid, from |-> s.phase,
                                pending |-> s.pending_name, url |-> s.url_session_id])
    /\ UNCHANGED <<phase_signal, net, c, timers, boot, aim, now, h>>

\* network.rs lines 468-475 (death)
Death(kn) ==
    /\ ChannelOpen(net.ws)
    /\ s' = [s EXCEPT !.death_info = Some(kn), !.phase = "Dead"]
    /\ phase_signal' = "Dead"
    /\ out' = << >>
    /\ last' = Step("death", kn)
    /\ UNCHANGED <<net, c, timers, boot, aim, now, h>>

\* network.rs lines 497-538: the phase a match_phase message leads to
MatchPhaseTargetShifted(cur, phase, mode) ==
    IF phase = 0
    THEN IF GameModeFromI32(mode) = "FFA" THEN "Lobby" ELSE "MatchLobby"
    ELSE IF phase = 1 THEN "Playing"
    ELSE IF phase = 2 THEN "Result"
    ELSE IF phase = 3 THEN "Result"
    ELSE "Lobby"

MatchPhaseTarget(cur, phase, mode) ==
    IF phase = 0
    THEN IF GameModeFromI32(mode) = "FFA" THEN "Lobby" ELSE "MatchLobby"
    ELSE IF phase = 1 THEN "Countdown"
    ELSE IF phase = 2 THEN "Playing"
    ELSE IF phase = 3 THEN "Result"
    ELSE cur

\* network.rs lines 500-501: both lobby arms reset the ready flag and the
\* stored result
LobbyClearKeepsResult(st) == [st EXCEPT !.is_ready = FALSE]

LobbyClear(st) == [st EXCEPT !.is_ready = FALSE, !.match_result = None]

\* network.rs lines 504-506: the free-for-all arm forgets the session
FfaLobbyResetKeepsId(st) ==
    [st EXCEPT !.session_id = None, !.controller_attached = FALSE]

FfaLobbyReset(st) ==
    [st EXCEPT !.session_id = None, !.my_id = None, !.controller_attached = FALSE]

\* network.rs lines 491-540 (match_phase)
MatchPhaseKeepsIdentity(mp) ==
    /\ ChannelOpen(net.ws)
    /\ LET s1 == [s EXCEPT !.game_mode = GameModeFromI32(mp.mode),
                           !.match_phase = mp.phase,
                           !.countdown_time = mp.countdown]
           s2 == IF mp.phase = 0 THEN LobbyClear(s1) ELSE s1
           s3 == IF mp.phase = 0 /\ s2.game_mode = "FFA" THEN s2 ELSE s2
       IN  /\ s' = [s3 EXCEPT !.phase = MatchPhaseTarget(s.phase, mp.phase, mp.mode)]
           /\ phase_signal' = IF mp.phase \in {0, 1, 2, 3}
                              THEN MatchPhaseTarget(s.phase, mp.phase, mp.mode)
                              ELSE phase_signal
           /\ out' = IF mp.phase = 0 /\ s2.game_mode = "FFA"
                     THEN SendOn(net.ws, Envelope("leave", NoArg))
                     ELSE << >>
    /\ last' = Step("match_phase", [mp |-> mp, from |-> s.phase,
                                    session_id |-> s.session_id, my_id |-> s.my_id,
                                    match_result |-> s.match_result])
    /\ h' = [h EXCEPT !.left_session = (mp.phase = 0 /\ GameModeFromI32(mp.mode) = "FFA") \/ @]
    /\ UNCHANGED <<net, c, timers, boot, aim, now>>

MatchPhase(mp) ==
    /\ ChannelOpen(net.ws)
    /\ LET s1 == [s EXCEPT !.game_mode = GameModeFromI32(mp.mode),
                           !.match_phase = mp.phase,
                           !.countdown_time = mp.countdown]
           s2 == IF mp.phase = 0 THEN LobbyClear(s1) ELSE s1
           s3 == IF mp.phase = 0 /\ s2.game_mode = "FFA" THEN FfaLobbyReset(s2) ELSE s2
       IN  /\ s' = [s3 EXCEPT !.phase = MatchPhaseTarget(s.phase, mp.phase, mp.mode)]
           /\ phase_signal' = IF mp.phase \in {0, 1, 2, 3}
                              THEN MatchPhaseTarget(s.phase, mp.phase, mp.mode)
                              ELSE phase_signal
           /\ out' = IF mp.phase = 0 /\ s2.game_mode = "FFA"
                     THEN SendOn(net.ws, Envelope("leave", NoArg))
                     ELSE << >>
    /\ last' = Step("match_phase", [mp |-> mp, from |-> s.phase,
                                    session_id |-> s.session_id, my_id |-> s.my_id,
                                    match_result |-> s.match_result])
    /\ h' = [h EXCEPT !.left_session = (mp.phase = 0 /\ GameModeFromI32(mp.mode) = "FFA") \/ @]
    /\ UNCHANGED <<net, c, timers, boot, aim, now>>

\* network.rs lines 541-548 (match_result)
MatchResult(mr) ==
    /\ ChannelOpen(net.ws)
    /\ s' = [s EXCEPT !.match_result = Some(mr), !.phase = "Result"]
    /\ phase_signal' = "Result"
    /\ out' = << >>
    /\ last' = Step("match_result", mr)
    /\ UNCHANGED <<net, c, timers, boot, aim, now, h>>

\* network.rs lines 556-563 (ctrl_on)
CtrlOn ==
    /\ ChannelOpen(net.ws)
    /\ s' = [s EXCEPT !.controller_attached = TRUE]
    /\ out' = << >>
    /\ last' = Step("ctrl_on", NoArg)
    /\ UNCHANGED <<phase_signal, net, c, timers, boot, aim, now, h>>

\* network.rs lines 564-566 (ctrl_off)
CtrlOff ==
    /\ ChannelOpen(net.ws)
    /\ s' = [s EXCEPT !.controller_attached = FALSE]
    /\ out' = << >>
    /\ last' = Step("ctrl_off", NoArg)
    /\ UNCHANGED <<phase_signal, net, c, timers, boot, aim, now, h>>

----------------------------------------------------------------------------
(* Authentication state and the persisted credential *)

\* a credential left in localStorage by an earlier visit; app.rs lines 62-70
\* restore the username from it before the first connect
StoredLogin(token, username) ==
    /\ ~boot.net_connected /\ boot.storage.auth_token = None
    /\ boot' = [boot EXCEPT !.storage = [auth_token |-> Some(token),
                                         auth_username |-> Some(username)]]
    /\ s' = IF username # "" THEN [s EXCEPT !.auth_username = Some(username)] ELSE s
    /\ out' = << >>
    /\ last' = Step("stored_login", token)
    /\ UNCHANGED <<phase_signal, net, c, timers, aim, now, h>>

\* network.rs lines 567-585 (auth_ok)
AuthOk(a) ==
    /\ ChannelOpen(net.ws)
    /\ s' = [s EXCEPT !.auth_token = Some(a.token), !.auth_username = Some(a.username),
                      !.auth_player_id = a.pid]
    /\ boot' = [boot EXCEPT !.storage = [auth_token |-> Some(a.token),
                                         auth_username |-> Some(a.username)]]
    /\ out' = SendOn(net.ws, Envelope("profile", NoArg))
              \o SendOn(net.ws, Envelope("daily_login", NoArg))
    /\ last' = Step("auth_ok", a)
    /\ UNCHANGED <<phase_signal, net, c, timers, aim, now, h>>

\* network.rs lines 700-711: the text that clears the credential
InvalidTokenAnyError(msg) == TRUE

InvalidToken(msg) == msg = "invalid token"

\* network.rs lines 696-718 (error); the text shown in the auth form is
\* outside the model
ErrorMessage(msg) ==
    /\ ChannelOpen(net.ws)
    /\ s' = IF InvalidToken(msg)
            THEN [s EXCEPT !.auth_token = None, !.auth_username = None,
                           !.auth_player_id = 0]
            ELSE s
    /\ boot' = IF InvalidToken(msg)
               THEN [boot EXCEPT !.storage = [auth_token |-> None, auth_username |-> None]]
               ELSE boot
    /\ out' = << >>
    /\ last' = Step("error", [msg |-> msg, auth_token |-> s.auth_token,
                               storage |-> boot.storage])
    /\ UNCHANGED <<phase_signal, net, c, timers, aim, now, h>>

----------------------------------------------------------------------------
(* canvas.rs, input.rs: screen size and the touch joystick of the main client *)

Min(a, b) == IF a <= b THEN a ELSE b

BOOST_COLUMN_HALF == 50

\* app.rs lines 152-160: canvas::resize (canvas.rs lines 36-46) followed by
\* setup_input (input.rs lines 14-23)
Mount(w, hgt, mobile) ==
    /\ ~boot.mounted
    /\ boot' = [boot EXCEPT !.mounted = TRUE]
    /\ LET s1 == [s EXCEPT !.screen_w = w, !.screen_h = hgt,
                           !.cam_zoom = Min(Min(w, hgt), ZOOM_ONE),
                           !.is_mobile = mobile]
       IN  s' = IF mobile
                THEN [s1 EXCEPT !.mouse_x = w \div 2, !.mouse_y = hgt \div 2]
                ELSE s1
    /\ out' = << >>
    /\ last' = Step("mount", mobile)
    /\ UNCHANGED <<phase_signal, net, c, timers, aim, now, h>>

\* input.rs lines 148-194 (touchstart), one changed touch per event
TouchStartEff(cx, cy) ==
    IF s.phase # "Playing" THEN s' = s
    ELSE LET half_w == s.screen_w \div 2
             center_left == half_w - BOOST_COLUMN_HALF
             center_right == half_w + BOOST_COLUMN_HALF
         IN  IF cx >= center_left /\ cx <= center_right
             THEN s' = [s EXCEPT
                          !.boosting = TRUE, !.shift_pressed = TRUE,
                          !.hyperspace_locked_r =
                              IF s.hyperspace_locked_r = None
                              THEN IF s.my_id # None /\ s.my_id[1] \in DOMAIN s.players
                                   THEN Some(s.players[s.my_id[1]].r) ELSE None
                              ELSE s.hyperspace_locked_r]
             ELSE IF cx < center_left /\ s.touch_joystick = None
                  THEN s' = [s EXCEPT
                               !.touch_joystick = Some([start_x |-> cx, start_y |-> cy]),
                               !.mouse_x = s.screen_w \div 2,
                               !.mouse_y = s.screen_h \div 2]
                  ELSE IF cx > center_right /\ ~s.firing
                       THEN s' = [s EXCEPT !.firing = TRUE]
                       ELSE s' = s

TouchStart(cx, cy) ==
    /\ boot.mounted /\ s.is_mobile
    /\ TouchStartEff(cx, cy)
    /\ out' = << >>
    /\ last' = Step("touchstart", <<cx, cy>>)
    /\ UNCHANGED <<phase_signal, net, c, timers, boot, aim, now, h>>

\* input.rs line 144 and lines 218-219: dx * 2.5, for even dx
TouchScale(d) == (5 * d) \div 2

\* input.rs lines 204-223 (touchmove)
TouchMoveEff(cx, cy) ==
    IF s.touch_joystick # None
    THEN s' = [s EXCEPT
                 !.mouse_x = s.screen_w \div 2 + TouchScale(cx - s.touch_joystick[1].start_x),
                 !.mouse_y = s.screen_h \div 2 + TouchScale(cy - s.touch_joystick[1].start_y)]
    ELSE s' = s

TouchMove(cx, cy) ==
    /\ boot.mounted /\ s.is_mobile
    /\ TouchMoveEff(cx, cy)
    /\ out' = << >>
    /\ last' = Step("touchmove", <<cx, cy>>)
    /\ UNCHANGED <<phase_signal, net, c, timers, boot, aim, now, h>>

Abs(v) == IF v < 0 THEN -v ELSE v

\* input.rs lines 231-270 (touchend)
TouchEnd(cx) ==
    /\ boot.mounted /\ s.is_mobile
    /\ LET half_w == s.screen_w \div 2
           center_left == half_w - BOOST_COLUMN_HALF
           center_right == half_w + BOOST_COLUMN_HALF
       IN  IF cx >= center_left /\ cx <= center_right
           THEN s' = [s EXCEPT !.boosting = FALSE, !.shift_pressed = FALSE,
                               !.hyperspace_locked_r = None]
           ELSE IF cx < center_left
                THEN s' = IF s.touch_joystick # None
                             /\ Abs(cx - s.touch_joystick[1].start_x) < 200
                          THEN [s EXCEPT !.touch_joystick = None,
                                         !.mouse_x = s.screen_w \div 2,
                                         !.mouse_y = s.screen_h \div 2]
                          ELSE s
                ELSE s' = [s EXCEPT !.firing = FALSE]
    /\ out' = << >>
    /\ last' = Step("touchend", cx)
    /\ UNCHANGED <<phase_signal, net, c, timers, boot, aim, now, h>>

----------------------------------------------------------------------------
(* input.rs: mouse and keyboard of the desktop main client *)

\* input.rs lines 33-38 (mousemove); the handler is inert on a touch device
MouseMove(x, y) ==
    /\ boot.mounted
    /\ s' = IF s.is_mobile THEN s ELSE [s EXCEPT !.mouse_x = x, !.mouse_y = y]
    /\ out' = << >>
    /\ last' = Step("mousemove", <<x, y>>)
    /\ UNCHANGED <<phase_signal, net, c, timers, boot, aim, now, h>>

\* input.rs lines 45-53 (mousedown, left button)
MouseDown ==
    /\ boot.mounted
    /\ s' = IF s.is_mobile \/ s.phase # "Playing" THEN s ELSE [s EXCEPT !.firing = TRUE]
    /\ out' = << >>
    /\ last' = Step("mousedown", NoArg)
    /\ UNCHANGED <<phase_signal, net, c, timers, boot, aim, now, h>>

\* input.rs lines 59-65 (mouseup, left button)
MouseUp ==
    /\ boot.mounted
    /\ s' = IF s.is_mobile THEN s ELSE [s EXCEPT !.firing = FALSE]
    /\ out' = << >>
    /\ last' = Step("mouseup", NoArg)
    /\ UNCHANGED <<phase_signal, net, c, timers, boot, aim, now, h>>

\* input.rs lines 82-93: Shift pressed; the rotation is captured only when
\* none is held, and only if the own player is in the players map
ShiftDownRecaptures(st) ==
    [st EXCEPT !.boosting = TRUE, !.shift_pressed = TRUE,
               !.hyperspace_locked_r =
                   IF st.my_id # None /\ st.my_id[1] \in DOMAIN st.players
                   THEN Some(st.players[st.my_id[1]].r) ELSE None]

ShiftDown(st) ==
    [st EXCEPT !.boosting = TRUE, !.shift_pressed = TRUE,
               !.hyperspace_locked_r =
                   IF st.hyperspace_locked_r = None
                   THEN IF st.my_id # None /\ st.my_id[1] \in DOMAIN st.players
                        THEN Some(st.players[st.my_id[1]].r) ELSE None
                   ELSE st.hyperspace_locked_r]

\* input.rs lines 76-103 (keydown) for the keys "w", "Shift" and "q"
KeyDown(key) ==
    /\ boot.mounted
    /\ s' = IF s.phase # "Playing" THEN s
            ELSE IF key = "w" THEN [s EXCEPT !.firing = TRUE]
            ELSE IF key = "Shift" THEN ShiftDown(s)
            ELSE IF key = "q" THEN [s EXCEPT !.ability_pressed = TRUE]
            ELSE s
    /\ out' = << >>
    /\ last' = Step("keydown", [key |-> key, phase |-> s.phase,
                                 held |-> s.hyperspace_locked_r])
    /\ UNCHANGED <<phase_signal, net, c, timers, boot, aim, now, h>>

\* input.rs lines 109-123 (keyup)
KeyUp(key) ==
    /\ boot.mounted
    /\ s' = IF key = "w" THEN [s EXCEPT !.firing = FALSE]
            ELSE IF key = "Shift"
            THEN [s EXCEPT !.boosting = FALSE, !.shift_pressed = FALSE,
                           !.hyperspace_locked_r = None]
            ELSE IF key = "q" THEN [s EXCEPT !.ability_pressed = FALSE]
            ELSE s
    /\ out' = << >>
    /\ last' = Step("keyup", [key |-> key])
    /\ UNCHANGED <<phase_signal, net, c, timers, boot, aim, now, h>>

\* app.rs lines 50-54: a session id in the page URL, read before the
\* first connect
UrlSession(sid) ==
    /\ ~boot.net_connected /\ s.url_session_id = None
    /\ s' = [s EXCEPT !.url_session_id = Some(sid)]
    /\ out' = << >>
    /\ last' = Step("url_session", sid)
    /\ UNCHANGED <<phase_signal, net, c, timers, boot, aim, now, h>>

\* app.rs lines 104 and 94-99, network.rs lines 262-264 (list_sessions)
ListSessions ==
    /\ boot.net_connected
    /\ out' = SendOn(net.ws, Envelope("list", NoArg))
    /\ last' = Step("list_sessions", NoArg)
    /\ h' = [h EXCEPT !.dropped_list = @ \/ ~ChannelOpen(net.ws)]
    /\ UNCHANGED <<s, phase_signal, net, c, timers, boot, aim, now>>

----------------------------------------------------------------------------
(* Geometry shared by the three target-lock sites *)

Dist2(x, y, ox, oy) == (x - ox) * (x - ox) + (y - oy) * (y - oy)

\* (cos, sin) of atan2(dy, dx) for the axis directions the inputs use
AimDir(dx, dy) ==
    IF dy = 0 /\ dx > 0 THEN <<1, 0>>
    ELSE IF dy = 0 /\ dx < 0 THEN <<-1, 0>>
    ELSE IF dx = 0 /\ dy > 0 THEN <<0, 1>>
    ELSE IF dx = 0 /\ dy < 0 THEN <<0, -1>>
    ELSE <<1, 0>>

\* (cos, sin) * 1000 of a rotation given in milliradians, for quarter turns
Cos1000(r) == IF r = 0 THEN 1000 ELSE IF r = 3142 \/ r = -3142 THEN -1000 ELSE 0

Sin1000(r) == IF r = 1571 THEN 1000 ELSE IF r = -1571 THEN -1000 ELSE 0

\* sqrt(dx*dx + dy*dy) > limit, for a non-negative integer limit
LongerThan(dx, dy, limit) == dx * dx + dy * dy > limit * limit

\* Vec::iter().find(|e| e.id == id)
FindFirst(enemies, id) ==
    LET I == {i \in 1..Len(enemies) : enemies[i].id = id}
    IN  IF I = {} THEN None
        ELSE Some(enemies[CHOOSE i \in I : \A j \in I : i <= j])

\* the scan loop: the running best starts at the detection radius squared
\* and a candidate at distance <= best replaces it
RECURSIVE ScanFrom(_, _, _, _, _)
RECURSIVE ScanFromKeepRadius(_, _, _, _, _)
ScanFromKeepRadius(enemies, ox, oy, best_dist, best) ==
    IF enemies = << >> THEN best
    ELSE LET e == Head(enemies)
         IN  IF Dist2(e.x, e.y, ox, oy) <= best_dist
             THEN ScanFromKeepRadius(Tail(enemies), ox, oy, best_dist, Some(e))
             ELSE ScanFromKeepRadius(Tail(enemies), ox, oy, best_dist, best)

ScanFrom(enemies, ox, oy, best_dist, best) ==
    IF enemies = << >> THEN best
    ELSE LET e == Head(enemies)
             d2 == Dist2(e.x, e.y, ox, oy)
         IN  IF d2 <= best_dist
             THEN ScanFrom(Tail(enemies), ox, oy, d2, Some(e))
             ELSE ScanFrom(Tail(enemies), ox, oy, best_dist, best)

----------------------------------------------------------------------------
(* controller.rs: state frames, messages, touches and the input loop *)

EnemyRec(kind, id, x, y) == [id |-> <<kind, id>>, x |-> x, y |-> y]

\* controller.rs lines 244-252: own position, and the other active players
RECURSIVE CtrlScanPlayers(_, _, _)
CtrlScanPlayers(ps, cs, acc) ==
    IF ps = << >> THEN <<cs, acc>>
    ELSE LET p == Head(ps)
         IN  IF p.id = cs.pid
             THEN CtrlScanPlayers(Tail(ps),
                     [cs EXCEPT !.player_x = p.x, !.player_y = p.y, !.player_r = p.r], acc)
             ELSE IF p.a
                  THEN CtrlScanPlayers(Tail(ps), cs, Append(acc, EnemyRec("p", p.id, p.x, p.y)))
                  ELSE CtrlScanPlayers(Tail(ps), cs, acc)

\* controller.rs lines 253-257: the active mobs
RECURSIVE CtrlScanMobs(_, _)
CtrlScanMobs(ms, acc) ==
    IF ms = << >> THEN acc
    ELSE LET m == Head(ms)
         IN  IF m.a THEN CtrlScanMobs(Tail(ms), Append(acc, EnemyRec("m", m.id, m.x, m.y)))
             ELSE CtrlScanMobs(Tail(ms), acc)

\* controller.rs lines 239-259 (handle_state)
CtrlHandleStateEff(gs) ==
    LET r == CtrlScanPlayers(gs.p, c, << >>)
    IN  c' = [r[1] EXCEPT !.enemies = CtrlScanMobs(gs.m, r[2])]

CtrlHandleState(gs) ==
    /\ ChannelOpen(c.ws)
    /\ CtrlHandleStateEff(gs)
    /\ out' = << >>
    /\ last' = Step("ctrl_handle_state", gs)
    /\ UNCHANGED <<s, phase_signal, net, timers, boot, aim, now, h>>

\* controller.rs lines 265-270 and 460-471: control_ok attaches and starts
\* one more input Interval, which is never cancelled
CtrlControlOkEff ==
    /\ ChannelOpen(c.ws)
    /\ c' = [c EXCEPT !.attached = TRUE]
    /\ boot' = [boot EXCEPT !.ctrl_loops = @ + 1]
    /\ out' = << >>
    /\ last' = Step("control_ok", NoArg)
    /\ UNCHANGED <<s, phase_signal, net, timers, aim, now, h>>

CtrlControlOk ==
    /\ ChannelOpen(c.ws)
    /\ boot.ctrl_loops < MaxLoops
    /\ c' = [c EXCEPT !.attached = TRUE]
    /\ boot' = [boot EXCEPT !.ctrl_loops = @ + 1]
    /\ out' = << >>
    /\ last' = Step("control_ok", NoArg)
    /\ UNCHANGED <<s, phase_signal, net, timers, aim, now, h>>

\* controller.rs lines 271-279: error and unhandled tags only log
CtrlOtherMessage ==
    /\ ChannelOpen(c.ws)
    /\ out' = << >>
    /\ last' = Step("ctrl_other_message", NoArg)
    /\ UNCHANGED <<s, phase_signal, net, c, timers, boot, aim, now, h>>

\* controller.rs lines 303-342 (touchstart), one changed touch per event
CtrlTouchStart(zone, tid) ==
    /\ c' = IF zone = "LEFT" /\ c.joystick_touch_id = None
            THEN [c EXCEPT !.joystick_touch_id = Some(tid),
                           !.joystick_dx = 0, !.joystick_dy = 0]
            ELSE IF zone = "RIGHT" /\ c.fire_touch_id = None
            THEN [c EXCEPT !.fire_touch_id = Some(tid), !.firing = TRUE]
            ELSE IF zone = "CENTER" /\ c.boost_touch_id = None
            THEN [c EXCEPT !.boost_touch_id = Some(tid), !.boosting = TRUE,
                           !.boost_locked_r = Some(c.player_r)]
            ELSE c
    /\ out' = << >>
    /\ last' = Step("ctrl_touchstart", <<zone, tid>>)
    /\ UNCHANGED <<s, phase_signal, net, timers, boot, aim, now, h>>

\* controller.rs lines 350-368 (touchmove): dx, dy are the offsets from the
\* joystick start
CtrlTouchMoved(cs, tid, dx, dy) ==
    IF cs.joystick_touch_id = Some(tid)
    THEN [cs EXCEPT !.joystick_dx = dx, !.joystick_dy = dy]
    ELSE cs

CtrlTouchMove(tid, dx, dy) ==
    /\ c' = CtrlTouchMoved(c, tid, dx, dy)
    /\ out' = << >>
    /\ last' = Step("ctrl_touchmove", <<tid, dx, dy>>)
    /\ UNCHANGED <<s, phase_signal, net, timers, boot, aim, now, h>>

\* controller.rs lines 375-403 (touchend / touchcancel)
CtrlTouchEnd(tid) ==
    /\ LET c1 == IF c.joystick_touch_id = Some(tid)
                 THEN [c EXCEPT !.joystick_touch_id = None,
                                !.joystick_dx = 0, !.joystick_dy = 0]
                 ELSE c
           c2 == IF c1.fire_touch_id = Some(tid)
                 THEN [c1 EXCEPT !.fire_touch_id = None, !.firing = FALSE]
                 ELSE c1
       IN  c' = IF c2.boost_touch_id = Some(tid)
                THEN [c2 EXCEPT !.boost_touch_id = None, !.boosting = FALSE,
                                !.boost_locked_r = None]
                ELSE c2
    /\ out' = << >>
    /\ last' = Step("ctrl_touchend", tid)
    /\ UNCHANGED <<s, phase_signal, net, timers, boot, aim, now, h>>

\* controller.rs lines 473-478: the loop body runs only when connected and
\* attached
CtrlLoopRuns(cs) == cs.connected /\ cs.attached

\* controller.rs line 485
CtrlJoystickActive(cs) == LongerThan(cs.joystick_dx, cs.joystick_dy, DEAD_ZONE)

\* controller.rs lines 486-488: the orbit point
CtrlOrbit(cs) ==
    LET d == AimDir(cs.joystick_dx, cs.joystick_dy)
    IN  <<cs.player_x + d[1] * AIM_ORBIT_R, cs.player_y + d[2] * AIM_ORBIT_R>>

\* controller.rs lines 491-523: sticky check, then the scan.  The result is
\* the new lock id and the target position (both None when not locked).
CtrlTargetLockNoSticky(lock, enemies, ox, oy) ==
    LET best == ScanFrom(enemies, ox, oy, AIM_DETECT_R * AIM_DETECT_R, None)
    IN  IF best # None
        THEN [lock_id |-> Some(best[1].id), target |-> Some(<<best[1].x, best[1].y>>)]
        ELSE [lock_id |-> None, target |-> None]

CtrlTargetLock(lock, enemies, ox, oy) ==
    LET t == IF lock # None THEN FindFirst(enemies, lock[1]) ELSE None
        locked == t # None /\ Dist2(t[1].x, t[1].y, ox, oy) <= AIM_DETECT_R * AIM_DETECT_R
    IN  IF locked
        THEN [lock_id |-> lock, target |-> Some(<<t[1].x, t[1].y>>)]
        ELSE LET best == ScanFrom(enemies, ox, oy, AIM_DETECT_R * AIM_DETECT_R, None)
             IN  IF best # None
                 THEN [lock_id |-> Some(best[1].id),
                       target |-> Some(<<best[1].x, best[1].y>>)]
                 ELSE [lock_id |-> None, target |-> None]

\* controller.rs lines 480-537: lock id and aim point before the boost
\* override
CtrlAimKeepsLock(cs) ==
    IF CtrlJoystickActive(cs)
    THEN LET o == CtrlOrbit(cs)
             r == CtrlTargetLock(cs.lock_target_id, cs.enemies, o[1], o[2])
         IN  IF r.target # None
             THEN [lock_id |-> r.lock_id, mx |-> r.target[1][1], my |-> r.target[1][2]]
             ELSE [lock_id |-> cs.lock_target_id,
                   mx |-> cs.player_x + cs.joystick_dx * JOYSTICK_SCALE,
                   my |-> cs.player_y + cs.joystick_dy * JOYSTICK_SCALE]
    ELSE [lock_id |-> None, mx |-> cs.player_x, my |-> cs.player_y]

CtrlAim(cs) ==
    IF CtrlJoystickActive(cs)
    THEN LET o == CtrlOrbit(cs)
             r == CtrlTargetLock(cs.lock_target_id, cs.enemies, o[1], o[2])
         IN  IF r.target # None
             THEN [lock_id |-> r.lock_id, mx |-> r.target[1][1], my |-> r.target[1][2]]
             ELSE [lock_id |-> r.lock_id,
                   mx |-> cs.player_x + cs.joystick_dx * JOYSTICK_SCALE,
                   my |-> cs.player_y + cs.joystick_dy * JOYSTICK_SCALE]
    ELSE [lock_id |-> None, mx |-> cs.player_x, my |-> cs.player_y]

\* controller.rs lines 539-548: during boost the heading captured at boost
\* start replaces the aim point
CtrlBoostOverride(cs, a) ==
    IF cs.boosting /\ cs.boost_locked_r # None
    THEN <<cs.player_x + Cos1000(cs.boost_locked_r[1]), cs.player_y + Sin1000(cs.boost_locked_r[1])>>
    ELSE <<a.mx, a.my>>

\* controller.rs lines 473-576 (send_input), run by an input Interval: the
\* controller state it leaves and the frame it hands to the channel
CtrlSendInputNext(cs) ==
    IF CtrlLoopRuns(cs) THEN [cs EXCEPT !.lock_target_id = CtrlAim(cs).lock_id] ELSE cs

CtrlSendInputOut(cs) ==
    IF CtrlLoopRuns(cs) /\ ChannelOpen(cs.ws)
    THEN LET a == CtrlAim(cs)
             m == CtrlBoostOverride(cs, a)
         IN  <<[to |-> "ctrl", t |-> "input", mx |-> m[1], my |-> m[2],
                fire |-> cs.firing, boost |-> cs.boosting, thresh |-> 50]>>
    ELSE << >>

\* what the step records: whether the lock step ran, the lock before it
\* and the lock after it
CtrlChoice(cs) ==
    [ran |-> CtrlLoopRuns(cs) /\ CtrlJoystickActive(cs),
     before |-> cs.lock_target_id,
     target |-> IF CtrlLoopRuns(cs) THEN CtrlAim(cs).lock_id ELSE cs.lock_target_id]

CtrlSendInput ==
    /\ boot.ctrl_loops > 0
    /\ c' = CtrlSendInputNext(c)
    /\ out' = CtrlSendInputOut(c)
    /\ last' = Step("ctrl_send_input", CtrlChoice(c))
    /\ UNCHANGED <<s, phase_signal, net, timers, boot, aim, now, h>>

----------------------------------------------------------------------------
(* auto_aim.rs: the aim circle drawn on the main client *)

\* auto_aim.rs lines 37-45: needs my_id and an active own player
AimRuns(st) ==
    /\ st.my_id # None
    /\ st.my_id[1] \in DOMAIN st.players
    /\ st.players[st.my_id[1]].a

\* auto_aim.rs lines 47-48: the orbit point lies along the ship's rotation
AimOrbit(st) ==
    LET me == st.players[st.my_id[1]]
    IN  <<me.x + (Cos1000(me.r) * AUTO_AIM_ORBIT_R) \div 1000,
          me.y + (Sin1000(me.r) * AUTO_AIM_ORBIT_R) \div 1000>>

\* the orders in which a HashMap may be iterated
Orders(S) == {f \in [1..Cardinality(S) -> S] : \A i, j \in 1..Cardinality(S) : f[i] = f[j] => i = j}

\* auto_aim.rs lines 51-59: the enemy list, players first, in map order
AimEnemies(st, po, mo) ==
    LET P == SelectSeq([i \in 1..Len(po) |-> EnemyRec("p", po[i], st.players[po[i]].x, st.players[po[i]].y)],
                       LAMBDA e : e.id[2] # st.my_id[1] /\ st.players[e.id[2]].a)
        M == SelectSeq([i \in 1..Len(mo) |-> EnemyRec("m", mo[i], st.mobs[mo[i]].x, st.mobs[mo[i]].y)],
                       LAMBDA e : st.mobs[e.id[2]].a)
    IN  P \o M

\* auto_aim.rs lines 66-95: sticky check, then clear and scan
AimTargetLockStale(a, enemies, ox, oy) ==
    IF a.target_id # None THEN a
    ELSE LET best == ScanFrom(enemies, ox, oy, AUTO_AIM_DETECT_R * AUTO_AIM_DETECT_R, None)
         IN  IF best # None
             THEN [target_id |-> Some(best[1].id), target_x |-> best[1].x, target_y |-> best[1].y]
             ELSE a

AimTargetLock(a, enemies, ox, oy) ==
    LET t == IF a.target_id # None THEN FindFirst(enemies, a.target_id[1]) ELSE None
        locked == t # None /\ Dist2(t[1].x, t[1].y, ox, oy) <= AUTO_AIM_DETECT_R * AUTO_AIM_DETECT_R
    IN  IF locked
        THEN [a EXCEPT !.target_x = t[1].x, !.target_y = t[1].y]
        ELSE LET best == ScanFrom(enemies, ox, oy, AUTO_AIM_DETECT_R * AUTO_AIM_DETECT_R, None)
             IN  IF best # None
                 THEN [target_id |-> Some(best[1].id), target_x |-> best[1].x, target_y |-> best[1].y]
                 ELSE [a EXCEPT !.target_id = None]

\* renderer.rs lines 230-232 and auto_aim.rs lines 31-95: called each frame
\* while a controller is attached or the client is mobile
UpdateControllerAim ==
    /\ s.phase # "Lobby"
    /\ s.controller_attached \/ s.is_mobile
    /\ \E po \in Orders(DOMAIN s.players), mo \in Orders(DOMAIN s.mobs) :
          aim' = IF AimRuns(s)
                 THEN LET o == AimOrbit(s)
                      IN  AimTargetLock(aim, AimEnemies(s, po, mo), o[1], o[2])
                 ELSE aim
    /\ out' = << >>
    /\ last' = Step("aim", [ran |-> AimRuns(s), before |-> aim.target_id])
    /\ UNCHANGED <<s, phase_signal, net, c, timers, boot, now, h>>

----------------------------------------------------------------------------
(* renderer.rs: interpolation of players and mobs at a frame *)

\* std::f64::consts::PI, in the angle unit of the model (pi / 3142 rad)
PI == 3142

\* the clock (performance.now()) moves between events: the next event
\* comes e ms after the last apply, or after start while none has happened
Advance(e) ==
    /\ LET base == IF s.interp_last_update > 0 THEN s.interp_last_update ELSE 1000
       IN  now < base + e /\ now' = base + e
    /\ out' = << >>
    /\ last' = Step("advance", e)
    /\ UNCHANGED <<s, phase_signal, net, c, timers, boot, aim, h>>

\* renderer.rs lines 9-12: the two normalising loops of lerp_angle
RECURSIVE NormDiff(_)
NormDiffNone(diff) == diff

NormDiff(diff) ==
    IF diff > PI THEN NormDiff(diff - 2 * PI)
    ELSE IF diff < -PI THEN NormDiff(diff + 2 * PI)
    ELSE diff

\* a value from + diff * t with t the rational t[1] / t[2], kept exactly
\* renderer.rs lines 167-168: prev + (cur - prev) * interp_t
LerpBackwards(from, to, t) == [from |-> to, diff |-> from - to, t |-> t]

Lerp(from, to, t) == [from |-> from, diff |-> to - from, t |-> t]

\* renderer.rs lines 8-14 (lerp_angle)
lerp_angle(from, to, t) == [from |-> from, diff |-> NormDiff(to - from), t |-> t]

\* renderer.rs line 172: the record's own value, no interpolation
Exact(v) == [from |-> v, diff |-> 0, t |-> <<0, 1>>]

\* renderer.rs lines 66-68: elapsed / interp_interval clamped to [0, 1];
\* interp_interval is n / (100 * 5^k) and is always positive
InterpTUnclamped(st, t_now) ==
    <<(t_now - st.interp_last_update) * 100 * Pow5(st.interp_interval.k), st.interp_interval.n>>

InterpT(st, t_now) ==
    LET num == (t_now - st.interp_last_update) * 100 * Pow5(st.interp_interval.k)
        den == st.interp_interval.n
    IN  IF num >= den THEN <<1, 1>>
        ELSE IF num <= 0 THEN <<0, 1>>
        ELSE <<num, den>>

\* renderer.rs lines 166-174 (players) and 195-203 (mobs): the pose drawn
RenderPoseAlwaysLerp(cur, prev, id, t) ==
    LET q == IF id \in DOMAIN prev THEN prev[id] ELSE [x |-> 0, y |-> 0, r |-> 0]
    IN  [x |-> Lerp(q.x, cur[id].x, t),
         y |-> Lerp(q.y, cur[id].y, t),
         r |-> lerp_angle(q.r, cur[id].r, t)]

RenderPose(cur, prev, id, t) ==
    IF id \in DOMAIN prev
    THEN [x |-> Lerp(prev[id].x, cur[id].x, t),
          y |-> Lerp(prev[id].y, cur[id].y, t),
          r |-> lerp_angle(prev[id].r, cur[id].r, t)]
    ELSE [x |-> Exact(cur[id].x), y |-> Exact(cur[id].y), r |-> Exact(cur[id].r)]

\* the active entities of a collection (lines 165 and 194 skip the others)
Drawn(cur) == {id \in DOMAIN cur : cur[id].a}

\* game_loop.rs lines 14-43 and renderer.rs lines 36-206: one animation frame
\* outside the lobby; what the step records are the interpolation factor
\* the camera position and the pose of every player and mob drawn
Render ==
    /\ s.phase # "Lobby"
    /\ LET t == InterpT(s, now)
       IN  last' = Step("render",
                 [t |-> t,
                  cam |-> [x |-> Lerp(s.prev_cam_x, s.cam_x, t),
                           y |-> Lerp(s.prev_cam_y, s.cam_y, t)],
                  players |-> [id \in Drawn(s.players) |-> RenderPose(s.players, s.prev_players, id, t)],
                  mobs |-> [id \in Drawn(s.mobs) |-> RenderPose(s.mobs, s.prev_mobs, id, t)]])
    /\ out' = << >>
    /\ UNCHANGED <<s, phase_signal, net, c, timers, boot, aim, now, h>>

----------------------------------------------------------------------------
(* network.rs Network::send_input: the input sampler of the main client *)

\* f64::round of num / den (den > 0): halves round away from zero
Round(num, den) ==
    IF num >= 0 THEN (2 * num + den) \div (2 * den)
    ELSE -((2 * (-num) + den) \div (2 * den))

\* `as i16` and the u16 clamp of line 250 saturate
Sat(v, lo, hi) == IF v < lo THEN lo ELSE IF v > hi THEN hi ELSE v

\* network.rs lines 251-258: `as u16` reinterprets the i16 modulo 2^16, the
\* high byte is the value shifted right by 8 and the low byte its low 8 bits
InputBytesLittleEndian(mx_i, my_i, fire, boost, ability, thresh_i) ==
    <<1,
      (mx_i % 65536) % 256, (mx_i % 65536) \div 256,
      (my_i % 65536) % 256, (my_i % 65536) \div 256,
      (IF fire THEN 1 ELSE 0) + (IF boost THEN 2 ELSE 0) + (IF ability THEN 4 ELSE 0),
      thresh_i % 256, thresh_i \div 256>>

InputBytes(mx_i, my_i, fire, boost, ability, thresh_i) ==
    <<1,
      (mx_i % 65536) \div 256, (mx_i % 65536) % 256,
      (my_i % 65536) \div 256, (my_i % 65536) % 256,
      (IF fire THEN 1 ELSE 0) + (IF boost THEN 2 ELSE 0) + (IF ability THEN 4 ELSE 0),
      thresh_i \div 256, thresh_i % 256>>

\* network.rs lines 163-169: the ticks on which nothing is sent
InputSuppressedIgnoresCtrl(st) ==
    \/ st.phase \notin {"Playing", "Dead", "Countdown"}
    \/ st.my_id = None

InputSuppressed(st) ==
    \/ st.phase \notin {"Playing", "Dead", "Countdown"}
    \/ st.my_id = None
    \/ st.controller_attached

\* network.rs lines 172-173: the pointer projected to world space, as the
\* pair <<numerator, denominator>>
RawAim(mouse, screen, zoom, cam) ==
    <<(2 * mouse - screen) * ZOOM_ONE + cam * 2 * zoom, 2 * zoom>>

\* network.rs lines 176-184: mobile, joystick deflected, own player active
NetAutoAimRuns(st) ==
    /\ st.is_mobile
    /\ LongerThan(2 * st.mouse_x - st.screen_w, 2 * st.mouse_y - st.screen_h, 2 * JDIST_MIN)
    /\ st.my_id # None
    /\ st.my_id[1] \in DOMAIN st.players
    /\ st.players[st.my_id[1]].a

\* network.rs lines 185-190: the orbit point
NetOrbit(st) ==
    LET me == st.players[st.my_id[1]]
        d == AimDir(2 * st.mouse_x - st.screen_w, 2 * st.mouse_y - st.screen_h)
    IN  <<me.x + d[1] * orbit_r, me.y + d[2] * orbit_r>>

\* network.rs lines 192-214: the nearest active candidate within detect_r,
\* players (other than self) first, then mobs, each in map order
NetBestTarget(st, po, mo) ==
    LET o == NetOrbit(st)
        best == ScanFrom(AimEnemies(st, po, mo), o[1], o[2], detect_r * detect_r, None)
    IN  best

\* network.rs lines 171-259: the frame built on a tick that is not suppressed
InputFrame(st, target) ==
    LET rx == RawAim(st.mouse_x, st.screen_w, st.cam_zoom, st.cam_x)
        ry == RawAim(st.mouse_y, st.screen_h, st.cam_zoom, st.cam_y)
        ax == IF target # None THEN <<target[1].x, 1>> ELSE rx
        ay == IF target # None THEN <<target[1].y, 1>> ELSE ry
        lockedHeading == /\ st.shift_pressed /\ st.hyperspace_locked_r # None
                         /\ st.my_id[1] \in DOMAIN st.players
        me == st.players[st.my_id[1]]
        mx == IF lockedHeading THEN <<me.x + Cos1000(st.hyperspace_locked_r[1]), 1>> ELSE ax
        my == IF lockedHeading THEN <<me.y + Sin1000(st.hyperspace_locked_r[1]), 1>> ELSE ay
        mx_i == Sat(Round(mx[1], mx[2]), -32768, 32767)
        my_i == Sat(Round(my[1], my[2]), -32768, 32767)
        thresh_i == Sat(Round(Min(st.screen_w, st.screen_h) * ZOOM_ONE, 8 * st.cam_zoom), 0, 65535)
    IN  [to |-> "net", op |-> 1, mx |-> mx_i, my |-> my_i,
         fire |-> st.firing, boost |-> st.boosting, ability |-> st.ability_pressed,
         thresh |-> thresh_i,
         buf |-> InputBytes(mx_i, my_i, st.firing, st.boosting, st.ability_pressed, thresh_i)]

\* network.rs lines 160-260 (send_input); changes no client state.  What
\* the step records: whether the auto-aim ran, the candidate it chose, and
\* whether the step before it was a tick that transmitted.
NetChoice(st, po, mo) ==
    LET runs == ~InputSuppressed(st) /\ NetAutoAimRuns(st)
    IN  [ran |-> runs, after_sent |-> last.op = "send_input" /\ out # << >>,
         target |-> IF runs /\ NetBestTarget(st, po, mo) # None
                    THEN Some(NetBestTarget(st, po, mo)[1].id) ELSE None]

NetSendInputOutOnChange(st, ws, po, mo) ==
    LET frame == InputFrame(st, IF NetAutoAimRuns(st)
                                THEN NetBestTarget(st, po, mo) ELSE None)
    IN  IF InputSuppressed(st) \/ (last.op = "send_input" /\ out = <<frame>>)
        THEN << >> ELSE SendOn(ws, frame)

NetSendInputOut(st, ws, po, mo) ==
    IF InputSuppressed(st) THEN << >>
    ELSE SendOn(ws, InputFrame(st, IF NetAutoAimRuns(st)
                                   THEN NetBestTarget(st, po, mo) ELSE None))

\* app.rs lines 85-91: the 20 Hz Interval started with the first connect
NetSendInput ==
    /\ boot.net_connected
    /\ \E po \in Orders(DOMAIN s.players), mo \in Orders(DOMAIN s.mobs) :
          /\ out' = NetSendInputOut(s, net.ws, po, mo)
          /\ last' = Step("send_input", NetChoice(s, po, mo))
    /\ UNCHANGED <<s, phase_signal, net, c, timers, boot, aim, now, h>>

----------------------------------------------------------------------------
(* Snapshot inputs *)

PlayerRec(id, x, y, vx, vy, a) ==
    [id |-> id, x |-> x, y |-> y, r |-> 0, vx |-> vx, vy |-> vy, a |-> a, b |-> FALSE]

MobRec(id, x, y, vx, vy, a) ==
    [id |-> id, x |-> x, y |-> y, r |-> 0, vx |-> vx, vy |-> vy, a |-> a]

PosRec(id, x, y) == [id |-> id, x |-> x, y |-> y]

ZoneRec(id, x, y, r) == [id |-> id, x |-> x, y |-> y, r |-> r]

GameStateMsg(p, m, pr, a, pk, hz, tick) ==
    [p |-> p, pr |-> pr, m |-> m, a |-> a, pk |-> pk, hz |-> hz, tick |-> tick,
     mp |-> 0, tl |-> 0, trs |-> 0, tbs |-> 0]

----------------------------------------------------------------------------
(* network.rs on_message: decoding and dispatch *)

\* a field of a parsed object, or the serde default when it is absent
FieldOr(obj, f, d) == IF f \in DOMAIN obj THEN obj[f] ELSE d

HasFields(obj, fs) == fs \subseteq DOMAIN obj

\* protocol.rs lines 110-131: p, pr and tick are required, the rest default
DecodeGameStateAllDefault(obj) ==
    IF HasFields(obj, {"tick"})
    THEN Some(GameStateMsg(FieldOr(obj, "p", << >>), FieldOr(obj, "m", << >>),
                           FieldOr(obj, "pr", << >>),
                           FieldOr(obj, "a", << >>), FieldOr(obj, "pk", << >>),
                           FieldOr(obj, "hz", << >>), obj.tick))
    ELSE None

DecodeGameState(obj) ==
    IF HasFields(obj, {"p", "pr", "tick"})
    THEN Some(GameStateMsg(obj.p, FieldOr(obj, "m", << >>), obj.pr,
                           FieldOr(obj, "a", << >>), FieldOr(obj, "pk", << >>),
                           FieldOr(obj, "hz", << >>), obj.tick))
    ELSE None

\* the required fields of each payload (protocol.rs); ctrl_on carries none
Required(tag) ==
    IF tag = "welcome" THEN {"id", "s"}
    ELSE IF tag = "death" THEN {"kn"}
    ELSE IF tag = "match_phase" THEN {"phase", "mode"}
    ELSE IF tag = "auth_ok" THEN {"token", "username", "pid"}
    ELSE IF tag = "error" THEN {"msg"}
    ELSE {}

KnownTags == {"state", "welcome", "death", "match_phase", "ctrl_on", "auth_ok", "error"}

\* network.rs lines 95-108 and the `if let Ok` of each arm of
\* handle_message: the message a frame decodes to, if any.  A frame is
\* binary or text; its body is the parsed map / object, or None when the
\* bytes or the text do not parse at all.
Decode(raw) ==
    IF raw.body = None THEN None
    ELSE LET obj == raw.body[1]
         IN  IF raw.bin
             THEN IF DecodeGameState(obj) # None
                  THEN Some([t |-> "state", d |-> DecodeGameState(obj)[1]])
                  ELSE None
             ELSE IF ~HasFields(obj, {"t"}) \/ obj.t \notin KnownTags THEN None
             ELSE LET data == FieldOr(obj, "d", << >>)
                  IN  IF obj.t = "state"
                      THEN IF DecodeGameState(data) # None
                           THEN Some([t |-> "state", d |-> DecodeGameState(data)[1]])
                           ELSE None
                      ELSE IF HasFields(data, Required(obj.t))
                           THEN Some([t |-> obj.t, d |-> data])
                           ELSE None

\* the frame is dropped: nothing but the record of the step changes
Discard(raw) ==
    /\ ChannelOpen(net.ws)
    /\ out' = << >>
    /\ last' = Step("discard", raw)
    /\ h' = [h EXCEPT !.discarded = TRUE]
    /\ UNCHANGED <<s, phase_signal, net, c, timers, boot, aim, now>>

\* network.rs lines 94-109 (on_message) with handle_message lines 347-721
OnMessage(raw) ==
    LET m == Decode(raw)
    IN  IF m = None THEN Discard(raw)
        ELSE LET d == m[1].d
             IN  CASE m[1].t = "state" -> HandleState(d)
                   [] m[1].t = "welcome" -> Welcome(d.id, d.s)
                   [] m[1].t = "death" -> Death(d.kn)
                   [] m[1].t = "match_phase" ->
                        MatchPhase([phase |-> d.phase, mode |-> d.mode,
                                    countdown |-> FieldOr(d, "countdown", 0)])
                   [] m[1].t = "ctrl_on" -> CtrlOn
                   [] m[1].t = "auth_ok" ->
                        AuthOk([token |-> d.token, username |-> d.username, pid |-> d.pid])
                   [] m[1].t = "error" -> ErrorMessage(d.msg)

----------------------------------------------------------------------------
(* Inputs of the specifications *)

\* arrays of at most one record per id, in the order of the id list
OneOrNone(S) == {<< >>} \cup {<<r>> : r \in S}

\* velocity inputs: player "a" advances 10 units a tick and changes velocity, player "b" and
\* mob "a" (the same id in the other collection) carry other velocities
VelPlayersA(tick) ==
    {PlayerRec("a", 10 * tick, 0, vx, vy, TRUE) :
        vx \in {None, Some(5), Some(7)}, vy \in {None, Some(-2)}}

VelPlayersB == {PlayerRec("b", 0, 0, vx, None, TRUE) : vx \in {None, Some(7)}}

VelMobs == {MobRec("a", 0, 0, vx, None, TRUE) : vx \in {None, Some(3)}}

VelInputs(tick) ==
    {GameStateMsg(pa \o pb, m, << >>, << >>, << >>, << >>, tick) :
        pa \in OneOrNone(VelPlayersA(tick)), pb \in OneOrNone(VelPlayersB),
        m \in OneOrNone(VelMobs)}

\* replacement inputs: every collection varies in the ids it carries
IdArrays(Ids) == {<< >>} \cup {<<PosRec(i, 0, 0)>> : i \in Ids}

ReplInputs(tick) ==
    {GameStateMsg(p, m, pr, a, pk, hz, tick) :
        p \in {<< >>, <<PlayerRec("a", 0, 0, None, None, TRUE)>>,
               <<PlayerRec("b", 0, 0, Some(7), None, TRUE)>>,
               <<PlayerRec("a", 10, 0, Some(5), None, TRUE),
                 PlayerRec("b", 0, 0, None, None, TRUE)>>},
        m \in OneOrNone({MobRec("a", 0, 0, None, None, TRUE)}),
        pr \in IdArrays({"b"}),
        a \in IdArrays({"a"}),
        pk \in IdArrays({"b"}),
        hz \in {<< >>, <<ZoneRec("a", 0, 0, 50), ZoneRec("b", 10, 0, 50)>>}}

\* snapshots arrive in tick order
NextTickOk == s.tick < MaxTick

HandleStateVel == \E gs \in VelInputs(s.tick + 1) : NextTickOk /\ HandleState(gs)

HandleStateRepl == \E gs \in ReplInputs(s.tick + 1) : NextTickOk /\ HandleState(gs)

NextVel == NetConnect \/ NetWsOpen \/ HandleStateVel

SpecVel == Init /\ [][NextVel]_vars

NextRepl == NetConnect \/ NetWsOpen \/ HandleStateRepl

SpecRepl == Init /\ [][NextRepl]_vars

----------------------------------------------------------------------------
(* Snapshots in any order of their tick numbers *)

OrderTicks == {1, 2, 3}

\* each snapshot carries its tick in the x coordinate of player "a" and of
\* mob "a", so that a stored record tells which snapshot it came from
OrderInputs ==
    {GameStateMsg(<<PlayerRec("a", 10 * tick, 0, v, None, TRUE)>> \o pb,
                  IF mob THEN <<MobRec("a", 10 * tick, 0, None, None, TRUE)>> ELSE << >>,
                  << >>, << >>, << >>, << >>, tick) :
        tick \in OrderTicks, v \in {None, Some(5)},
        pb \in {<< >>, <<PlayerRec("b", 0, 0, None, None, TRUE)>>},
        mob \in BOOLEAN}

HandleStateOrder == \E gs \in OrderInputs : HandleState(gs)

NextOrder == NetConnect \/ NetWsOpen \/ HandleStateOrder

SpecOrder == Init /\ [][NextOrder]_vars

----------------------------------------------------------------------------
(* Target lock: the controller and the aim circle of the main client *)

Me == "me"

\* own ship at the origin heading along +x, so the orbit point is (360, 0);
\* player "a" is 90 from it (inside the detection circle), active or not, or
\* 160 from it (outside); mob "a" is 60 from it, nearer than the player
LockMe == PlayerRec(Me, 0, 0, None, None, TRUE)

LockMob == MobRec("a", 300, 0, None, None, TRUE)

LockInputs ==
    {GameStateMsg(<<LockMe>>, << >>, << >>, << >>, << >>, << >>, 1),
     GameStateMsg(<<LockMe, PlayerRec("a", 450, 0, None, None, TRUE)>>, << >>,
                  << >>, << >>, << >>, << >>, 1),
     GameStateMsg(<<LockMe, PlayerRec("a", 450, 0, None, None, TRUE)>>, <<LockMob>>,
                  << >>, << >>, << >>, << >>, 1),
     GameStateMsg(<<LockMe, PlayerRec("a", 450, 0, None, None, FALSE)>>, <<LockMob>>,
                  << >>, << >>, << >>, << >>, 1),
     GameStateMsg(<<LockMe, PlayerRec("a", 520, 0, None, None, TRUE)>>, <<LockMob>>,
                  << >>, << >>, << >>, << >>, 1)}

\* joystick offsets: right and left, both beyond the dead zone
JoyOffsets == {<<40, 0>>, <<-40, 0>>}

WelcomeMe == Welcome(Me, 0)

\* the server sends every snapshot to both sockets of the session: the main
\* client (network.rs lines 95-103) and its controller (controller.rs lines
\* 177-185) decode the same frame
BroadcastState(gs) ==
    /\ ChannelOpen(net.ws)
    /\ ChannelOpen(c.ws)
    /\ HandleStateEff(gs)
    /\ CtrlHandleStateEff(gs)
    /\ out' = << >>
    /\ last' = Step("state", gs)
    /\ UNCHANGED <<net, timers, boot, aim, now>>

BroadcastLock == \E gs \in LockInputs : BroadcastState(gs)

CtrlJoystickDown == CtrlTouchStart("LEFT", 1)

CtrlJoystickMove == \E d \in JoyOffsets : CtrlTouchMove(1, d[1], d[2])

CtrlJoystickUp == CtrlTouchEnd(1)

NextLock ==
    \/ NetConnect \/ NetWsOpen \/ WelcomeMe \/ CtrlOn
    \/ CtrlConnect \/ CtrlWsOpen \/ CtrlControlOk
    \/ BroadcastLock \/ UpdateControllerAim
    \/ CtrlJoystickDown \/ CtrlJoystickMove \/ CtrlJoystickUp \/ CtrlSendInput

SpecLock == Init /\ [][NextLock]_vars

----------------------------------------------------------------------------
(* The two input surfaces side by side: a mobile main client and a
   controller that are given the same snapshots, the same joystick offsets
   and the same ticks *)

\* a phone in landscape: zoom 1, joystick zone left of the boost column
PairScreen == <<1400, 700>>

JoyStart == <<100, 350>>

MountMobile == Mount(PairScreen[1], PairScreen[2], TRUE)

JoystickDown == TouchStart(JoyStart[1], JoyStart[2])

\* both joysticks are held and move by the same offset
PairJoystick ==
    \E d \in JoyOffsets :
        /\ s.is_mobile /\ s.touch_joystick # None
        /\ c.joystick_touch_id = Some(1)
        /\ TouchMoveEff(JoyStart[1] + d[1], JoyStart[2] + d[2])
        /\ c' = CtrlTouchMoved(c, 1, d[1], d[2])
        /\ out' = << >>
        /\ last' = Step("pair_joystick", d)
        /\ UNCHANGED <<phase_signal, net, timers, boot, aim, now, h>>

\* one tick of both input timers (app.rs lines 85-91, controller.rs lines
\* 460-471), once both samplers are live
PairTick ==
    /\ boot.net_connected /\ ~InputSuppressed(s)
    /\ boot.ctrl_loops > 0 /\ CtrlLoopRuns(c)
    /\ \E po \in Orders(DOMAIN s.players), mo \in Orders(DOMAIN s.mobs) :
          /\ out' = NetSendInputOut(s, net.ws, po, mo) \o CtrlSendInputOut(c)
          /\ last' = Step("pair_tick", [net |-> NetChoice(s, po, mo), ctrl |-> CtrlChoice(c)])
    /\ c' = CtrlSendInputNext(c)
    /\ UNCHANGED <<s, phase_signal, net, timers, boot, aim, now, h>>

NextPair ==
    \/ NetConnect \/ NetWsOpen \/ WelcomeMe \/ MountMobile \/ JoystickDown
    \/ CtrlConnect \/ CtrlWsOpen \/ CtrlControlOk \/ CtrlJoystickDown
    \/ BroadcastLock \/ PairJoystick \/ PairTick

SpecPair == Init /\ [][NextPair]_vars

----------------------------------------------------------------------------
(* Target acquisition on the three surfaces: the controller, the input
   tick of a mobile main client and its aim circle, given snapshots with
   candidates inside, on and outside the detection circle and with
   equally close candidates *)

ScanMob(x) == MobRec("a", x, 0, None, None, TRUE)

\* own ship at the origin; with the joystick to the right the orbit point is
\* (360, 0) and the detection circle reaches from 210 to 510 along the axis
ScanInputs ==
    {GameStateMsg(<<LockMe, PlayerRec("a", 400, 0, None, None, TRUE)>>, <<ScanMob(300)>>,
                  << >>, << >>, << >>, << >>, 1),
     GameStateMsg(<<LockMe, PlayerRec("a", 420, 0, None, None, TRUE)>>, <<ScanMob(300)>>,
                  << >>, << >>, << >>, << >>, 1),
     GameStateMsg(<<LockMe, PlayerRec("a", 360, 50, None, None, TRUE),
                    PlayerRec("b", 360, -50, None, None, TRUE)>>, << >>,
                  << >>, << >>, << >>, << >>, 1),
     GameStateMsg(<<LockMe, PlayerRec("a", 510, 0, None, None, TRUE)>>, <<ScanMob(520)>>,
                  << >>, << >>, << >>, << >>, 1)}

BroadcastScan == \E gs \in ScanInputs : BroadcastState(gs)

\* a second finger in the centre zone of the controller
CtrlBoostDown == CtrlTouchStart("CENTER", 2)

CtrlBoostUp == CtrlTouchEnd(2)

NextScan ==
    \/ NetConnect \/ NetWsOpen \/ WelcomeMe \/ MountMobile \/ JoystickDown
    \/ CtrlConnect \/ CtrlWsOpen \/ CtrlControlOk
    \/ CtrlJoystickDown \/ CtrlJoystickUp \/ PairJoystick
    \/ CtrlBoostDown \/ CtrlBoostUp
    \/ BroadcastScan \/ PairTick \/ UpdateControllerAim

SpecScan == Init /\ [][NextScan]_vars

----------------------------------------------------------------------------
(* The phase machine driven by control envelopes *)

\* protocol.rs lines 203-210: phase and mode are integers; 0..3 are the
\* phases the server names, -1 and 4 stand for every other value; modes 0,
\* 1, 2 are free-for-all and the two team modes
MatchPhaseMsgs ==
    {[phase |-> p, mode |-> m, countdown |-> 3] : p \in {-1, 0, 1, 2, 3, 4}, m \in {0, 1, 2}}

\* protocol.rs lines 18-28: the session id of a joined / created message
SessionIds == {"s1"}

\* protocol.rs lines 214-218
MatchResultMsgs == {[winner_team |-> w, players |-> << >>, duration |-> 60] : w \in {1, 2}}

DeathAny == Death("a")

MatchPhaseAny == \E mp \in MatchPhaseMsgs : MatchPhase(mp)

MatchResultAny == \E mr \in MatchResultMsgs : MatchResult(mr)

JoinedAny == \E sid \in SessionIds : Joined(sid)

CreatedAny == \E sid \in SessionIds : Created(sid)

\* protocol.rs lines 11-16: the id and ship the server announces
WelcomeAny == \E id \in {Me, "b"} : Welcome(id, 0)

NextPhase ==
    \/ NetConnect \/ NetWsOpen \/ WelcomeAny \/ DeathAny
    \/ MatchPhaseAny \/ MatchResultAny \/ CtrlOn \/ CtrlOff
    \/ JoinedAny \/ CreatedAny

SpecPhase == Init /\ [][NextPhase]_vars

----------------------------------------------------------------------------
(* Death and respawn: death messages and snapshots of the own ship *)

\* snapshots with the own ship active, with it inactive, and without it
DeadInputs ==
    {GameStateMsg(p, << >>, << >>, << >>, << >>, << >>, 1) :
        p \in {<<PlayerRec(Me, 0, 0, None, None, TRUE)>>,
               <<PlayerRec(Me, 0, 0, None, None, FALSE)>>,
               <<PlayerRec("a", 450, 0, None, None, TRUE)>>}}

HandleStateDead == \E gs \in DeadInputs : HandleState(gs)

\* a countdown starts (match_phase with phase 1)
CountdownStarts == MatchPhase([phase |-> 1, mode |-> 0, countdown |-> 3])

NextDead ==
    \/ NetConnect \/ NetWsOpen \/ WelcomeMe \/ DeathAny \/ CountdownStarts
    \/ HandleStateDead

SpecDead == Init /\ [][NextDead]_vars

----------------------------------------------------------------------------
(* The input sampler of a desktop main client *)

InputScreen == <<1400, 700>>

MousePoints == {<<0, 0>>, <<1400, 700>>}

MountDesktop == Mount(InputScreen[1], InputScreen[2], FALSE)

MouseMoveAny == \E p \in MousePoints : MouseMove(p[1], p[2])

UrlSessionAny == \E sid \in SessionIds : UrlSession(sid)

NextInput ==
    \/ UrlSessionAny \/ NetConnect \/ NetWsOpen \/ NetWsClose \/ ListSessions
    \/ WelcomeMe \/ DeathAny \/ CtrlOn \/ CtrlOff
    \/ MountDesktop \/ MouseMoveAny \/ MouseDown \/ MouseUp
    \/ NetSendInput

SpecInput == Init /\ [][NextInput]_vars

----------------------------------------------------------------------------
(* The phase cycle: control envelopes, snapshots of the own ship, the
   browser's back button and the loss of the channel *)

PopStateIgnored ==
    /\ boot.mounted
    /\ out' = << >>
    /\ last' = Step("popstate", s.phase)
    /\ UNCHANGED <<s, phase_signal, net, c, timers, boot, aim, now, h>>

\* app.rs lines 168-184 (popstate): in a session the client leaves it and
\* shows the lobby
PopState ==
    /\ boot.mounted
    /\ LET inSession == s.phase \in {"Playing", "Dead", "MatchLobby", "Countdown", "Result"}
       IN  /\ s' = IF inSession
                   THEN [s EXCEPT !.session_id = None, !.my_id = None,
                                  !.controller_attached = FALSE, !.phase = "Lobby"]
                   ELSE s
           /\ phase_signal' = IF inSession THEN "Lobby" ELSE phase_signal
           /\ out' = IF inSession THEN SendOn(net.ws, Envelope("leave", NoArg)) ELSE << >>
    /\ last' = Step("popstate", s.phase)
    /\ h' = [h EXCEPT !.left_session = (s.phase # "Lobby") \/ @]
    /\ UNCHANGED <<net, c, timers, boot, aim, now>>

\* match_phase messages of a free-for-all and of a team session
CycleMsgs == {[phase |-> p, mode |-> m, countdown |-> 3] : p \in {0, 1, 2, 3}, m \in {0, 1}}

\* snapshots with the own ship active and with it inactive
CycleInputs ==
    {GameStateMsg(<<PlayerRec(Me, 0, 0, None, None, a)>>, << >>, << >>, << >>, << >>, << >>, 1) :
        a \in BOOLEAN}

HandleStateCycle == \E gs \in CycleInputs : HandleState(gs)

MatchPhaseCycle == \E mp \in CycleMsgs : MatchPhase(mp)

NextCycle ==
    \/ NetConnect \/ NetWsOpen \/ NetWsClose \/ MountDesktop \/ PopState
    \/ WelcomeMe \/ DeathAny \/ MatchPhaseCycle \/ MatchResultAny \/ HandleStateCycle

SpecCycle == Init /\ [][NextCycle]_vars

\* the phase cycle together with the 20 Hz input timer
NextQuiet == NextCycle \/ NetSendInput

SpecQuiet == Init /\ [][NextQuiet]_vars

----------------------------------------------------------------------------
(* lobby.rs: creating a session, and the created message that answers it *)

\* the text of the name field: its trimmed content, and whether blanks
\* surround it
NameField(text, padded) == [text |-> text, padded |-> padded]

\* str::trim
Trim(field) == field.text

\* lobby.rs lines 107-129 (on_create): the trimmed name, or "Pilot" for a
\* blank field, is saved and a create command is sent; the lobby is shown
\* in phase Lobby only
OnCreate(field, mode) ==
    /\ s.phase = "Lobby"
    /\ LET name == IF Trim(field) = "" THEN "Pilot" ELSE Trim(field)
       IN  /\ s' = [s EXCEPT !.pending_name = Some(name)]
           /\ out' = SendOn(net.ws, Envelope("create", [name |-> name, mode |-> mode]))
           /\ last' = Step("on_create", [name |-> name, mode |-> mode])
    /\ UNCHANGED <<phase_signal, net, c, timers, boot, aim, now, h>>

CreateFields == {NameField("", FALSE), NameField("", TRUE), NameField("Ann", TRUE),
                 NameField("Bob", FALSE)}

OnCreateAny == \E f \in CreateFields, mode \in {0, 1} : OnCreate(f, mode)

CreatedSids == {"s1", "s2"}

CreatedEither == \E sid \in CreatedSids : Created(sid)

NextCreate ==
    \/ NetConnect \/ NetWsOpen \/ NetWsClose
    \/ OnCreateAny \/ CreatedEither \/ JoinedAny \/ WelcomeMe

SpecCreate == Init /\ [][NextCreate]_vars

----------------------------------------------------------------------------
(* Input frames and the boost heading: a main client with keyboard, mouse
   and touch, on a wide desktop screen or on a touch screen *)

WideScreen == <<4001, 2401>>

WidePoints == {<<0, 0>>, <<4001, 2401>>}

BoostKeys == {"Shift", "q", "w"}

\* the own player heading right at the origin, heading down far away, and
\* heading left at the origin with another player in auto-aim range
BoostInputs ==
    {GameStateMsg(p, << >>, << >>, << >>, << >>, << >>, 1) :
        p \in {<<PlayerRec(Me, 0, 0, None, None, TRUE)>>,
               <<[PlayerRec(Me, 0, -40000, None, None, TRUE) EXCEPT !.r = 1571]>>,
               <<[PlayerRec(Me, 0, 0, None, None, TRUE) EXCEPT !.r = 3142],
                 PlayerRec("a", 450, 0, None, None, TRUE)>>}}

MountWide == Mount(WideScreen[1], WideScreen[2], FALSE)

HandleStateBoost == \E gs \in BoostInputs : HandleState(gs)

MouseMoveWide == \E p \in WidePoints : MouseMove(p[1], p[2])

KeyDownAny == \E key \in BoostKeys : KeyDown(key)

KeyUpAny == \E key \in BoostKeys : KeyUp(key)

\* a touch in the centre column, and the joystick pushed to the right
BoostTouchDown == TouchStart(PairScreen[1] \div 2, PairScreen[2] \div 2)

BoostTouchUp == TouchEnd(PairScreen[1] \div 2)

JoystickRight == TouchMove(JoyStart[1] + 40, JoyStart[2])

NextBoost ==
    \/ NetConnect \/ NetWsOpen \/ WelcomeMe \/ MountWide \/ MountMobile
    \/ HandleStateBoost \/ MouseMoveWide \/ KeyDownAny \/ KeyUpAny
    \/ JoystickDown \/ JoystickRight \/ BoostTouchDown \/ BoostTouchUp
    \/ NetSendInput

SpecBoost == Init /\ [][NextBoost]_vars

----------------------------------------------------------------------------
(* Snapshots arriving at varying intervals and frames rendered in between *)

\* elapsed times: at the lower edge of the plausible window, inside it,
\* and at its upper edge
ClockSteps == {ELAPSED_MIN, 40, ELAPSED_MAX}

ClockMe(x, y, r, v) == [PlayerRec(Me, x, y, v, v, TRUE) EXCEPT !.r = r]

ClockInputs(tick) ==
    {GameStateMsg(<<ClockMe(0, 0, 3000, Some(5))>>,
                  <<MobRec("m", 30, 0, None, None, TRUE)>>,
                  << >>, << >>, << >>, << >>, tick),
     GameStateMsg(<<ClockMe(10, -20, -3000, None),
                    [PlayerRec("a", 50, 50, None, None, TRUE) EXCEPT !.r = 1571]>>,
                  <<[MobRec("m", 40, 0, None, None, TRUE) EXCEPT !.r = 7000]>>,
                  << >>, << >>, << >>, << >>, tick)}

HandleStateClock == \E gs \in ClockInputs(s.tick + 1) : NextTickOk /\ HandleState(gs)

AdvanceAny == \E d \in ClockSteps : Advance(d)

NextClock ==
    \/ NetConnect \/ NetWsOpen \/ NetWsClose \/ WelcomeMe
    \/ AdvanceAny \/ HandleStateClock \/ Render

SpecClock == Init /\ [][NextClock]_vars

----------------------------------------------------------------------------
(* Inbound frames, well-formed and not *)

Bin(body) == [bin |-> TRUE, body |-> body]

Txt(body) == [bin |-> FALSE, body |-> body]

\* frames that decode: a snapshot that leaves the defaulted arrays out, and
\* one message of each tag
GoodFrames ==
    {Bin(Some([p |-> <<PlayerRec(Me, 0, 0, None, None, TRUE)>>, pr |-> << >>, tick |-> 1])),
     Txt(Some([t |-> "welcome", d |-> [id |-> Me, s |-> 0]])),
     Txt(Some([t |-> "death", d |-> [kn |-> "a"]])),
     Txt(Some([t |-> "match_phase", d |-> [phase |-> 1, mode |-> 0]])),
     Txt(Some([t |-> "ctrl_on"])),
     Txt(Some([t |-> "auth_ok", d |-> [token |-> "tok1", username |-> "u1", pid |-> 7]])),
     Txt(Some([t |-> "error", d |-> [msg |-> "invalid token"]])),
     Txt(Some([t |-> "error", d |-> [msg |-> "session full"]]))}

\* frames that do not: bytes that are not msgpack, a map without p and pr,
\* text that is not JSON, an object without a tag, an unknown tag, and known
\* tags whose payload is absent or lacks a required field
BadFrames ==
    {Bin(None),
     Bin(Some([tick |-> 1])),
     Txt(None),
     Txt(Some([d |-> [id |-> Me, s |-> 0]])),
     Txt(Some([t |-> "zzz", d |-> [id |-> Me, s |-> 0]])),
     Txt(Some([t |-> "welcome"])),
     Txt(Some([t |-> "welcome", d |-> [id |-> Me]])),
     Txt(Some([t |-> "death", d |-> [killer |-> "a"]])),
     Txt(Some([t |-> "match_phase", d |-> [phase |-> 1]])),
     Txt(Some([t |-> "auth_ok", d |-> [token |-> "tok1"]])),
     Txt(Some([t |-> "error", d |-> [code |-> 1]])),
     Txt(Some([t |-> "state", d |-> [tick |-> 1]]))}

OnMessageAny == \E raw \in GoodFrames \cup BadFrames : OnMessage(raw)

StoredLoginAny == StoredLogin("tok0", "u0")

NextMsg == StoredLoginAny \/ NetConnect \/ NetWsOpen \/ OnMessageAny

SpecMsg == Init /\ [][NextMsg]_vars

----------------------------------------------------------------------------
(* Properties of the snapshot store *)

Applied == last.op = "handle_state"

AppliedNext == last'.op = "handle_state"

\* what C1 expects of one merged record: wire velocity if present, else the
\* velocity of the same id in the collection that was current before
Backfilled(r, before, merged) ==
    /\ merged.vx = (IF r.vx # None THEN r.vx
                    ELSE IF r.id \in DOMAIN before THEN before[r.id].vx ELSE None)
    /\ merged.vy = (IF r.vy # None THEN r.vy
                    ELSE IF r.id \in DOMAIN before THEN before[r.id].vy ELSE None)
    /\ (r.id \notin DOMAIN before /\ r.vx = None => UnwrapOr(merged.vx, 0) = 0)
    /\ (r.id \notin DOMAIN before /\ r.vy = None => UnwrapOr(merged.vy, 0) = 0)
    /\ [merged EXCEPT !.vx = None, !.vy = None] = [r EXCEPT !.vx = None, !.vy = None]

\* C1: every apply installs, for each incoming player or mob record, the
\* wire velocity when present and otherwise the velocity of the same id in
\* the collection that was current just before the apply (zero if that
\* collection has no such id); all other fields are the incoming ones.
C1_OneStepBackfill ==
    [][AppliedNext =>
        /\ \A id \in IdsOf(last'.arg.p) :
              /\ id \in DOMAIN s'.players
              /\ Backfilled(LastRec(last'.arg.p, id), s.players, s'.players[id])
        /\ \A id \in IdsOf(last'.arg.m) :
              /\ id \in DOMAIN s'.mobs
              /\ Backfilled(LastRec(last'.arg.m, id), s.mobs, s'.mobs[id])]_vars

\* the end-to-end example: "a" had vx=5, vy=-2, the new record omits both
\* and advances x by 10
C1_Witness ==
    /\ Applied
    /\ "a" \in IdsOf(last.arg.p)
    /\ LastRec(last.arg.p, "a").vx = None /\ LastRec(last.arg.p, "a").vy = None
    /\ "a" \in DOMAIN s.prev_players
    /\ s.prev_players["a"].vx = Some(5) /\ s.prev_players["a"].vy = Some(-2)
    /\ s.players["a"].vx = Some(5) /\ s.players["a"].vy = Some(-2)
    /\ s.players["a"].x = s.prev_players["a"].x + 10

\* the velocity history of the id agrees with the merged record, reading the
\* claim literally: the last explicit value whatever happened in between
CarriedLiteral(r, hist, merged) ==
    /\ (r.vx = None => UnwrapOr(merged.vx, 0) = UnwrapOr(hist.vx, 0))
    /\ (r.vy = None => UnwrapOr(merged.vy, 0) = UnwrapOr(hist.vy, 0))

\* ... and as the code has it: the last explicit value if the id has had a
\* record in every snapshot since, zero otherwise
CarriedNoGap(r, hist, merged) ==
    /\ (r.vx = None =>
          UnwrapOr(merged.vx, 0) = (IF hist.gx THEN 0 ELSE UnwrapOr(hist.vx, 0)))
    /\ (r.vy = None =>
          UnwrapOr(merged.vy, 0) = (IF hist.gy THEN 0 ELSE UnwrapOr(hist.vy, 0)))

\* C2 as stated: with snapshots applied in tick order, an omitted velocity
\* merges to the value most recently given explicitly for the id in an
\* earlier tick (zero if none).
C2_LastExplicitAlways ==
    Applied =>
        /\ \A id \in IdsOf(last.arg.p) :
              CarriedLiteral(LastRec(last.arg.p, id), h.pvel[id], s.players[id])
        /\ \A id \in IdsOf(last.arg.m) :
              CarriedLiteral(LastRec(last.arg.m, id), h.mvel[id], s.mobs[id])

\* C2 amended: with snapshots applied in tick order, an omitted velocity
\* merges to the value most recently given explicitly for the id provided
\* the id has had a record in every snapshot since that value was given;
\* if the id was missing from a snapshot in between, or no value was ever
\* given, the merged velocity is zero.
C2_LastExplicitNoGap ==
    Applied =>
        /\ \A id \in IdsOf(last.arg.p) :
              CarriedNoGap(LastRec(last.arg.p, id), h.pvel[id], s.players[id])
        /\ \A id \in IdsOf(last.arg.m) :
              CarriedNoGap(LastRec(last.arg.m, id), h.mvel[id], s.mobs[id])

\* a velocity carried over two applies: given at tick 1, omitted at 2 and 3
C2_Witness ==
    /\ Applied /\ s.tick = 3
    /\ "a" \in IdsOf(last.arg.p) /\ LastRec(last.arg.p, "a").vx = None
    /\ "a" \in DOMAIN s.prev_players /\ s.prev_players["a"].x = 20
    /\ s.players["a"].vx = Some(5) /\ s.players["a"].x = 30
    /\ h.pvel["a"].vx = Some(5) /\ ~h.pvel["a"].gx

\* C3: after every apply the previous player and mob collections are exactly
\* the collections that were current just before it (replace, not union).
C3_PrevIsFormerCurrent ==
    [][AppliedNext => s'.prev_players = s.players /\ s'.prev_mobs = s.mobs]_vars

\* an apply after which an id of the older previous collection is gone
C3_Witness ==
    /\ Applied /\ s.tick = 3
    /\ DOMAIN s.prev_players = {"a"} /\ DOMAIN s.players = {"b"}
    /\ DOMAIN s.prev_mobs = {} /\ DOMAIN s.mobs = {"a"}

\* C4: after an apply the ids of every current collection are exactly the
\* ids of the incoming array; ids that were current and are not in the
\* snapshot are gone.
C4_CompleteReplacement ==
    [][AppliedNext =>
        /\ DOMAIN s'.players = IdsOf(last'.arg.p)
        /\ DOMAIN s'.mobs = IdsOf(last'.arg.m)
        /\ DOMAIN s'.projectiles = IdsOf(last'.arg.pr)
        /\ DOMAIN s'.asteroids = IdsOf(last'.arg.a)
        /\ DOMAIN s'.pickups = IdsOf(last'.arg.pk)
        /\ IdsOf(s'.heal_zones) = IdsOf(last'.arg.hz)
        /\ \A id \in (DOMAIN s.players) \ IdsOf(last'.arg.p) : id \notin DOMAIN s'.players
        /\ \A id \in (DOMAIN s.projectiles) \ IdsOf(last'.arg.pr) : id \notin DOMAIN s'.projectiles
        /\ \A id \in IdsOf(s.heal_zones) \ IdsOf(last'.arg.hz) : id \notin IdsOf(s'.heal_zones)]_vars

\* an apply that dropped ids from several collections
C4_Witness ==
    /\ Applied /\ s.tick >= 2
    /\ DOMAIN s.prev_players = {"a", "b"} /\ DOMAIN s.players = {"b"}
    /\ DOMAIN s.prev_mobs = {"a"} /\ DOMAIN s.mobs = {}
    /\ DOMAIN s.projectiles = {"b"} /\ DOMAIN s.asteroids = {}
    /\ DOMAIN s.pickups = {"b"} /\ IdsOf(s.heal_zones) = {}

----------------------------------------------------------------------------
(* Properties of the target lock *)

\* the step just taken ran the lock step of the controller's input loop
CtrlLockStep == last'.op = "ctrl_send_input" /\ last'.arg.ran

\* the step just taken ran the lock step of the aim circle
AimLockStep == last'.op = "aim" /\ last'.arg.ran

\* the candidates the controller holds that lie within the detection radius
\* of its orbit point
CtrlInRange ==
    LET o == CtrlOrbit(c)
    IN  {c.enemies[i].id : i \in {j \in 1..Len(c.enemies) :
            Dist2(c.enemies[j].x, c.enemies[j].y, o[1], o[2]) <= AIM_DETECT_R * AIM_DETECT_R}}

\* the candidates of the main client (other active players, active mobs)
\* within the detection radius of the orbit point
AimInRange ==
    LET o == AimOrbit(s)
    IN  {<<"p", id>> : id \in {i \in DOMAIN s.players :
            /\ i # s.my_id[1]
            /\ s.players[i].a
            /\ Dist2(s.players[i].x, s.players[i].y, o[1], o[2])
                  <= AUTO_AIM_DETECT_R * AUTO_AIM_DETECT_R}}
        \cup
        {<<"m", id>> : id \in {i \in DOMAIN s.mobs :
            /\ s.mobs[i].a
            /\ Dist2(s.mobs[i].x, s.mobs[i].y, o[1], o[2])
                  <= AUTO_AIM_DETECT_R * AUTO_AIM_DETECT_R}}

\* C7: a lock step that starts with the lock on a candidate within the
\* detection radius of the orbit point ends with the lock on the same
\* candidate, whatever else is in range, on the controller and on the aim
\* circle of the main client
C7_StickyLock ==
    [][/\ (CtrlLockStep /\ c.lock_target_id # None /\ c.lock_target_id[1] \in CtrlInRange)
            => c'.lock_target_id = c.lock_target_id
       /\ (AimLockStep /\ aim.target_id # None /\ aim.target_id[1] \in AimInRange)
            => aim'.target_id = aim.target_id]_vars

\* the controller's last lock step kept player "a" although mob "a" is
\* strictly closer to the orbit point
C7_Witness ==
    /\ last.op = "ctrl_send_input"
    /\ last.arg.ran
    /\ last.arg.before = Some(<<"p", "a">>)
    /\ c.lock_target_id = Some(<<"p", "a">>)
    /\ {<<"p", "a">>, <<"m", "a">>} \subseteq CtrlInRange
    /\ \E i, j \in 1..Len(c.enemies) :
          /\ c.enemies[i].id = <<"p", "a">>
          /\ c.enemies[j].id = <<"m", "a">>
          /\ Dist2(c.enemies[j].x, c.enemies[j].y, CtrlOrbit(c)[1], CtrlOrbit(c)[2])
                < Dist2(c.enemies[i].x, c.enemies[i].y, CtrlOrbit(c)[1], CtrlOrbit(c)[2])

\* C8: a lock step that starts with the lock on an id that is not a candidate
\* within the detection radius ends with the lock off that id: on one of the
\* candidates within the radius when there is one, cleared otherwise
C8_ReleaseAndReacquire ==
    [][/\ (CtrlLockStep /\ c.lock_target_id # None /\ c.lock_target_id[1] \notin CtrlInRange)
            => /\ c'.lock_target_id # c.lock_target_id
               /\ IF CtrlInRange # {}
                  THEN c'.lock_target_id # None /\ c'.lock_target_id[1] \in CtrlInRange
                  ELSE c'.lock_target_id = None
       /\ (AimLockStep /\ aim.target_id # None /\ aim.target_id[1] \notin AimInRange)
            => /\ aim'.target_id # aim.target_id
               /\ IF AimInRange # {}
                  THEN aim'.target_id # None /\ aim'.target_id[1] \in AimInRange
                  ELSE aim'.target_id = None]_vars

\* the aim circle's last lock step started on player "a", which is no longer
\* a candidate in range, and ended on mob "a"
C8_Witness ==
    /\ last.op = "aim"
    /\ last.arg.ran
    /\ last.arg.before = Some(<<"p", "a">>)
    /\ <<"p", "a">> \notin AimInRange
    /\ aim.target_id = Some(<<"m", "a">>)

\* the candidates the main client derives from its maps, as a set
NetCandidates ==
    {[id |-> <<"p", i>>, x |-> s.players[i].x, y |-> s.players[i].y] :
        i \in {j \in DOMAIN s.players : j # s.my_id[1] /\ s.players[j].a}}
    \cup
    {[id |-> <<"m", i>>, x |-> s.mobs[i].x, y |-> s.mobs[i].y] :
        i \in {j \in DOMAIN s.mobs : s.mobs[j].a}}

\* the two surfaces hold the same own position, aim direction and candidates
SameLockInputs ==
    /\ s.my_id # None /\ s.my_id[1] \in DOMAIN s.players
    /\ c.player_x = s.players[s.my_id[1]].x
    /\ c.player_y = s.players[s.my_id[1]].y
    /\ AimDir(c.joystick_dx, c.joystick_dy)
          = AimDir(2 * s.mouse_x - s.screen_w, 2 * s.mouse_y - s.screen_h)
    /\ {c.enemies[i] : i \in 1..Len(c.enemies)} = NetCandidates

\* C9: on a tick where both surfaces ran their target selection on the same
\* own position, aim direction and candidates, after the same snapshots,
\* joystick offsets and ticks, Network::send_input and the controller's
\* send_input chose the same candidate
C9_SameTarget ==
    (/\ last.op = "pair_tick"
     /\ last.arg.net.ran
     /\ last.arg.ctrl.ran
     /\ SameLockInputs)
        => last.arg.net.target = last.arg.ctrl.target

----------------------------------------------------------------------------
(* Properties of the phase machine *)

\* C10: from any phase, a match_phase message with phase 1 leads to
\* Countdown, with phase 2 to Playing, with phase 3 to Result; with a phase
\* other than 0, 1, 2, 3 it leaves the phase as it was; a match_result
\* message leads to Result and stores the result
C10_MatchPhaseSetsPhase ==
    [][/\ last'.op = "match_phase" =>
            /\ last'.arg.mp.phase = 1 => s'.phase = "Countdown"
            /\ last'.arg.mp.phase = 2 => s'.phase = "Playing"
            /\ last'.arg.mp.phase = 3 => s'.phase = "Result"
            /\ last'.arg.mp.phase \notin {0, 1, 2, 3} => s'.phase = s.phase
       /\ last'.op = "match_result" =>
            /\ s'.phase = "Result"
            /\ s'.match_result = Some(last'.arg)]_vars

\* a match_phase message with phase 1 arrived in MatchLobby
C10_Witness ==
    /\ last.op = "match_phase"
    /\ last.arg.mp.phase = 1
    /\ last.arg.from = "MatchLobby"
    /\ s.phase = "Countdown"

\* the step just taken handled a match_phase message with phase = lobby
LobbyStep == last'.op = "match_phase" /\ last'.arg.mp.phase = 0

\* C11: a match_phase message with phase = lobby and mode = free-for-all
\* that arrives in Countdown, Playing, Dead or Result leads to Lobby with
\* session_id and my_id cleared and controller_attached false, and hands
\* exactly one leave command to the channel
C11_FfaLobbyLeaves ==
    [][(/\ LobbyStep
        /\ last'.arg.mp.mode = 0
        /\ s.phase \in {"Countdown", "Playing", "Dead", "Result"})
          => /\ s'.phase = "Lobby"
             /\ s'.session_id = None
             /\ s'.my_id = None
             /\ ~s'.controller_attached
             /\ out' = <<Envelope("leave", NoArg)>>]_vars

\* the message arrived in Result with a session and an own id set
C11_Witness ==
    /\ last.op = "match_phase"
    /\ last.arg.mp.phase = 0 /\ last.arg.mp.mode = 0
    /\ last.arg.from = "Result"
    /\ last.arg.session_id # None /\ last.arg.my_id # None
    /\ s.phase = "Lobby" /\ s.session_id = None /\ s.my_id = None
    /\ out = <<Envelope("leave", NoArg)>>

\* C12: a match_phase message with phase = lobby and a team mode leads to
\* MatchLobby, keeps session_id and my_id and hands nothing to the channel;
\* with any mode it resets is_ready and clears the stored match result
C12_TeamLobbyStays ==
    [][LobbyStep
          => /\ GameModeFromI32(last'.arg.mp.mode) \in {"TDM", "CTF"}
                  => /\ s'.phase = "MatchLobby"
                     /\ s'.session_id = s.session_id
                     /\ s'.my_id = s.my_id
                     /\ out' = << >>
             /\ ~s'.is_ready
             /\ s'.match_result = None]_vars

\* the message arrived with a team mode while a session, an own id and a
\* match result were stored
C12_Witness ==
    /\ last.op = "match_phase"
    /\ last.arg.mp.phase = 0 /\ last.arg.mp.mode = 1
    /\ last.arg.session_id # None /\ last.arg.my_id # None
    /\ last.arg.match_result # None
    /\ s.phase = "MatchLobby"
    /\ s.session_id = last.arg.session_id /\ s.my_id = last.arg.my_id
    /\ s.match_result = None

\* C13: a welcome message, in whatever phase it arrives, sets my_id to the
\* announced id and the phase to Playing
C13_WelcomePlays ==
    [][last'.op = "welcome"
          => s'.my_id = Some(last'.arg.id) /\ s'.phase = "Playing"]_vars

\* a welcome announcing id "b" arrived in Result
C13_Witness ==
    /\ last.op = "welcome"
    /\ last.arg.from = "Result"
    /\ last.arg.id = "b"
    /\ s.my_id = Some("b")
    /\ s.phase = "Playing"

\* C14: a joined or created message that arrives while the mode is
\* free-for-all moves the phase to Playing
C14_JoinedPlays ==
    [][(last'.op \in {"joined", "created"} /\ s.game_mode = "FFA")
          => s'.phase = "Playing"]_vars

\* the own ship's record in the snapshot the step just taken applied
OwnRecord == LastRec(last'.arg.p, s.my_id[1])

\* C15: a snapshot that contains the own ship turns Playing into Dead when
\* the ship's active flag is false, and turns Dead into Playing with the
\* death info cleared when the flag is true
C15_DeadAndBack ==
    [][(/\ last'.op = "handle_state"
        /\ s.my_id # None
        /\ s.my_id[1] \in IdsOf(last'.arg.p))
          => /\ (~OwnRecord.a /\ s.phase = "Playing") => s'.phase = "Dead"
             /\ (OwnRecord.a /\ s.phase = "Dead")
                  => s'.phase = "Playing" /\ s'.death_info = None]_vars

\* a snapshot with the own ship active arrived in Dead with a death info
\* stored
C15_Witness ==
    /\ last.op = "handle_state"
    /\ h.phase_before = "Dead"
    /\ h.death_before # None
    /\ s.my_id # None /\ s.my_id[1] \in DOMAIN s.players
    /\ s.players[s.my_id[1]].a
    /\ s.phase = "Playing"
    /\ s.death_info = None

----------------------------------------------------------------------------
(* Input sampler: suppression, resend, dropped sends *)

ClientState == <<s, phase_signal, net, c, timers, boot, aim, now>>

\* C16: on an input-timer tick taken while the phase is not Playing, Dead
\* or Countdown, or while a remote controller is attached, no frame is
\* handed to the channel and the tick changes no client state.
C16_InputSuppression ==
    [][(/\ last'.op = "send_input"
        /\ \/ s.phase \notin {"Playing", "Dead", "Countdown"}
           \/ s.controller_attached)
       => /\ out' = << >>
          /\ ClientState' = ClientState]_vars

\* a tick ran with the channel open, an id assigned and the phase Playing,
\* and sent nothing because a controller was attached
C16_Witness ==
    /\ last.op = "send_input"
    /\ s.phase = "Playing" /\ s.my_id # None /\ s.controller_attached
    /\ ChannelOpen(net.ws)
    /\ out = << >>

SendingPhase(st) == st.phase \in {"Playing", "Dead", "Countdown"}

\* C17 as stated: every tick in a sending phase, with no controller attached
\* and the channel open, transmits exactly one input frame.
C17_EveryTickSends ==
    [][(/\ last'.op = "send_input"
        /\ SendingPhase(s) /\ ~s.controller_attached /\ ChannelOpen(net.ws))
       => /\ Len(out') = 1
          /\ out'[1].op = 1]_vars

\* C17, amended: every tick in a sending phase, with the client's id
\* assigned, no controller attached and the channel open, transmits exactly
\* one input frame, also when the tick before it transmitted the same frame.
C17_EveryTickWithIdSends ==
    [][(/\ last'.op = "send_input"
        /\ SendingPhase(s) /\ s.my_id # None
        /\ ~s.controller_attached /\ ChannelOpen(net.ws))
       => /\ Len(out') = 1
          /\ out'[1].op = 1]_vars

\* two ticks in a row, nothing in between: the second one transmitted a
\* frame although the first had transmitted
C17_Witness ==
    /\ last.op = "send_input" /\ last.arg.after_sent
    /\ Len(out) = 1 /\ out[1].op = 1

SendSteps == {"send_input", "list_sessions"}

\* C18: a message submitted through send_raw or send_binary while the
\* channel is absent or not open is not transmitted and the call changes
\* no client state; the frames leaving on the step that opens the channel
\* are only those the open handler itself builds, and every frame that
\* leaves does so on the step that submitted it, with the channel open.
C18_DroppedNotQueued ==
    [][/\ (last'.op \in SendSteps /\ ~ChannelOpen(net.ws))
          => (out' = << >> /\ ClientState' = ClientState)
       /\ last'.op = "open"
          => \A i \in 1..Len(out') : out'[i].to = "net" /\ out'[i].t \in {"auth", "check"}
       /\ \A i \in 1..Len(out') : out'[i].to = "net" => ChannelOpen(net'.ws)
       /\ (\E i \in 1..Len(out') : out'[i].to = "net" /\ "t" \in DOMAIN out'[i] /\ out'[i].t = "list")
          => last'.op = "list_sessions"]_vars

\* the session list was requested while the channel was still connecting,
\* nothing left, and the channel has opened since without sending it
C18_Witness ==
    /\ h.dropped_list
    /\ ChannelOpen(net.ws)
    /\ last.op = "open"
    /\ \A i \in 1..Len(out) : out[i].t = "check"

----------------------------------------------------------------------------
(* The 8-byte input frame *)

\* big-endian two's-complement and unsigned readings of a byte pair
I16(hi, lo) == IF hi * 256 + lo >= 32768 THEN hi * 256 + lo - 65536 ELSE hi * 256 + lo

U16(hi, lo) == hi * 256 + lo

Bit(byte, k) == (byte \div k) % 2 = 1

\* C19: every transmitted input frame is 8 bytes, byte 0 is 0x01, bytes 1-2
\* and 3-4 decode (big-endian, two's complement) to the rounded saturated
\* aim coordinates, byte 5 carries fire, boost, ability in bits 0, 1, 2 with
\* the upper five bits zero, and bytes 6-7 decode (big-endian, unsigned) to
\* the rounded clamped threshold.
C19_FrameEncoding ==
    [][last'.op = "send_input" =>
          \A i \in 1..Len(out') :
             LET f == out'[i]
                 b == f.buf
             IN  /\ Len(b) = 8
                 /\ \A k \in 1..8 : b[k] \in 0..255
                 /\ b[1] = 1
                 /\ f.mx \in -32768..32767 /\ I16(b[2], b[3]) = f.mx
                 /\ f.my \in -32768..32767 /\ I16(b[4], b[5]) = f.my
                 /\ b[6] < 8
                 /\ Bit(b[6], 1) = f.fire /\ Bit(b[6], 2) = f.boost /\ Bit(b[6], 4) = f.ability
                 /\ f.thresh \in 0..65535 /\ U16(b[7], b[8]) = f.thresh]_vars

\* pointer at the top-left corner of the wide screen, own player at
\* (0, -40000), firing with the ability key held: mx = -2001 (0xF82F), my
\* saturated at -32768 (0x8000), flags 0x05, threshold 300 (0x012C)
C19_Witness ==
    /\ last.op = "send_input"
    /\ Len(out) = 1
    /\ out[1].buf = <<1, 248, 47, 128, 0, 5, 1, 44>>

----------------------------------------------------------------------------
(* The heading held during a boost *)

\* a boost press the client acts on: Shift keydown or a touch in the centre
\* column, in Playing
BoostPress ==
    \/ last'.op = "keydown" /\ last'.arg.key = "Shift" /\ last'.arg.phase = "Playing"
    \/ /\ last'.op = "touchstart" /\ s.phase = "Playing"
       /\ Abs(last'.arg[1] - s.screen_w \div 2) <= BOOST_COLUMN_HALF

BoostRelease ==
    \/ last'.op = "keyup" /\ last'.arg.key = "Shift"
    \/ last'.op = "touchend" /\ Abs(last'.arg - s.screen_w \div 2) <= BOOST_COLUMN_HALF

\* the own player's entry in the players map, if there is one
OwnPlayer(st) ==
    IF st.my_id # None /\ st.my_id[1] \in DOMAIN st.players
    THEN Some(st.players[st.my_id[1]]) ELSE None

\* the frame aims 1000 units from the own player along heading r
AimsAlong(f, st, r) ==
    /\ st.my_id # None /\ st.my_id[1] \in DOMAIN st.players
    /\ f.mx = Sat(st.players[st.my_id[1]].x + Cos1000(r), -32768, 32767)
    /\ f.my = Sat(st.players[st.my_id[1]].y + Sin1000(r), -32768, 32767)

\* C20: a first boost press captures the own player's rotation; while the
\* boost is held the captured heading does not change, whatever events
\* arrive; every input frame sent while it is held aims along the captured
\* heading; the release clears it.
C20_LockedHeading ==
    [][/\ (BoostPress /\ ~s.shift_pressed)
          => /\ s'.shift_pressed
             /\ s'.hyperspace_locked_r # None
             /\ OwnPlayer(s) # None
             /\ s'.hyperspace_locked_r = Some(OwnPlayer(s)[1].r)
       /\ (s.shift_pressed /\ s'.shift_pressed)
          => s'.hyperspace_locked_r = s.hyperspace_locked_r
       /\ (last'.op = "send_input" /\ s.shift_pressed /\ out' # << >>)
          => /\ s.hyperspace_locked_r # None
             /\ AimsAlong(out'[1], s, s.hyperspace_locked_r[1])
       /\ BoostRelease
          => (~s'.shift_pressed /\ s'.hyperspace_locked_r = None)]_vars

----------------------------------------------------------------------------
(* The interpolation clock *)

\* the interval as the rational <<numerator, denominator>> in ms
IntervalOf(iv) == <<iv.n, 100 * Pow5(iv.k)>>

\* C29: on each apply, with elapsed = now - last_update_time, the smoothed
\* interval becomes 0.8 * smoothed + 0.2 * elapsed when elapsed is strictly
\* between 10 and 200 ms and there was an earlier apply, and is unchanged
\* otherwise; last_update_time becomes now on every apply.
C29_ClockUpdate ==
    [][last'.op = "handle_state" =>
          LET elapsed == now - s.interp_last_update
              old == IntervalOf(s.interp_interval)
              new == IntervalOf(s'.interp_interval)
              first == s.interp_last_update = 0
          IN  /\ s'.interp_last_update = now
              /\ IF ~first /\ elapsed > 10 /\ elapsed < 200
                 THEN \* new = (4 * old + elapsed) / 5
                      /\ new[2] = 5 * old[2]
                      /\ new[1] = 4 * old[1] + elapsed * old[2]
                 ELSE s'.interp_interval = s.interp_interval]_vars

\* a third snapshot folded its elapsed time into an interval that had
\* already folded one sample, after a first snapshot that folded nothing
C29_Witness ==
    /\ last.op = "handle_state"
    /\ s.tick = 3
    /\ s.interp_interval.k = 2
    /\ s.interp_last_update = now

----------------------------------------------------------------------------
(* Interpolated poses *)

\* the value from + diff * t equals X (cross-multiplied by the denominator)
ValueIs(v, X) == (X - v.from) * v.t[2] = v.diff * v.t[1]

\* the drawn entities of a collection that have a previous record
Paired(cur, prev) == Drawn(cur) \cap DOMAIN prev

PoseIs(pose, rec) == ValueIs(pose.x, rec.x) /\ ValueIs(pose.y, rec.y) /\ ValueIs(pose.r, rec.r)

EndpointsExact(poses, cur, prev) ==
    \A id \in Paired(cur, prev) :
        /\ last'.arg.t = <<0, 1>> => PoseIs(poses[id], prev[id])
        /\ last'.arg.t = <<1, 1>> => PoseIs(poses[id], cur[id])

EndpointsModTurn(poses, cur, prev) ==
    \A id \in Paired(cur, prev) :
        /\ last'.arg.t = <<0, 1>> => PoseIs(poses[id], prev[id])
        /\ last'.arg.t = <<1, 1>> =>
              /\ ValueIs(poses[id].x, cur[id].x)
              /\ ValueIs(poses[id].y, cur[id].y)
              /\ \E turns \in -2..2 : ValueIs(poses[id].r, cur[id].r + turns * 2 * PI)
              /\ Abs(cur[id].r - prev[id].r) <= PI => ValueIs(poses[id].r, cur[id].r)

ShortWay(poses, cur, prev) ==
    \A id \in Paired(cur, prev) :
        /\ poses[id].r.from = prev[id].r
        /\ (poses[id].r.diff - (cur[id].r - prev[id].r)) % (2 * PI) = 0
        /\ Abs(poses[id].r.diff) <= PI

\* C22: the interpolated rotation is the previous rotation plus t times a
\* difference that is congruent to current - previous modulo a turn and of
\* absolute value at most pi, so the angle traversed at t is at most t * pi.
C22_ShortestPath ==
    [][last'.op = "render" =>
          /\ ShortWay(last'.arg.players, s.players, s.prev_players)
          /\ ShortWay(last'.arg.mobs, s.mobs, s.prev_mobs)]_vars

\* a frame strictly between two snapshots turned the own player from 3000
\* towards -3000 through the wrap: by +284 * t, not by -6000 * t
C22_Witness ==
    /\ last.op = "render"
    /\ last.arg.t[1] > 0 /\ last.arg.t[1] < last.arg.t[2]
    /\ Me \in Paired(s.players, s.prev_players)
    /\ s.prev_players[Me].r = 3000 /\ s.players[Me].r = -3000
    /\ last.arg.players[Me].r.diff = 2 * PI - 6000

Spawned(cur, prev) == Drawn(cur) \ DOMAIN prev

\* C30: a drawn entity with no previous record is drawn at exactly its
\* current position and rotation, whatever the interpolation factor.
C30_SpawnedAtCurrent ==
    [][last'.op = "render" =>
          /\ \A id \in Spawned(s.players, s.prev_players) :
                PoseIs(last'.arg.players[id], s.players[id])
          /\ \A id \in Spawned(s.mobs, s.prev_mobs) :
                PoseIs(last'.arg.mobs[id], s.mobs[id])]_vars

\* a frame strictly between two snapshots drew player "a", which the latest
\* snapshot introduced, at (50, 50) with rotation 1571
C30_Witness ==
    /\ last.op = "render"
    /\ last.arg.t[1] > 0 /\ last.arg.t[1] < last.arg.t[2]
    /\ "a" \in Spawned(s.players, s.prev_players)
    /\ PoseIs(last.arg.players["a"], [x |-> 50, y |-> 50, r |-> 1571])

----------------------------------------------------------------------------
(* Frames that do not decode; the auth credential *)

\* C23: a frame that does not decode (binary that is no snapshot, text that
\* is no envelope, an unknown tag, a known tag with a payload of the wrong
\* shape) leaves the whole client state and the persisted credential
\* unchanged and sends nothing; a well-formed welcome that arrives after a
\* discarded frame is processed as usual.
C23_DecodeFailuresIgnored ==
    [][/\ \A raw \in BadFrames :
             OnMessage(raw) => (ClientState' = ClientState /\ out' = << >>)
       /\ (h.discarded /\ last'.op = "welcome")
             => (s'.my_id = Some(last'.arg.id) /\ s'.phase = "Playing")]_vars

\* a welcome was processed after a frame had been discarded
C23_Witness ==
    /\ h.discarded
    /\ last.op = "welcome"
    /\ s.my_id = Some(Me) /\ s.phase = "Playing"

AuthOf(st) == <<st.auth_token, st.auth_username, st.auth_player_id>>

NoCredential == [auth_token |-> None, auth_username |-> None]

\* C24: an error message with the text "invalid token" clears auth_token,
\* auth_username and auth_player_id and removes the persisted credential;
\* any other error text leaves both unchanged; the open handler sends an
\* auth message exactly when a token is persisted, and a token is persisted,
\* once connected, only by an auth_ok.
C24_InvalidTokenClears ==
    [][/\ last'.op = "error" =>
             IF last'.arg.msg = "invalid token"
             THEN AuthOf(s') = <<None, None, 0>> /\ boot'.storage = NoCredential
             ELSE AuthOf(s') = AuthOf(s) /\ boot'.storage = boot.storage
       /\ last'.op = "open" =>
             ((\E i \in 1..Len(out') : out'[i].t = "auth")
                 <=> boot.storage.auth_token \notin {None, Some("")})
       /\ (boot.storage.auth_token = None /\ boot'.storage.auth_token # None)
             => last'.op \in {"auth_ok", "stored_login"}]_vars

\* a client that held a token, in its state and persisted, received
\* "invalid token" and holds none
C24_Witness ==
    /\ last.op = "error" /\ last.arg.msg = "invalid token"
    /\ last.arg.auth_token # None /\ last.arg.storage.auth_token # None
    /\ AuthOf(s) = <<None, None, 0>>
    /\ boot.storage = NoCredential

----------------------------------------------------------------------------
(* Records held over a close *)

\* the outcome of applying gs: no record of gs with an omitted velocity got
\* one from an older record, and none has an older record as its previous
FreshAfter(st, recs, cur, prev) ==
    \A i \in 1..Len(recs) :
        /\ recs[i].vx = None => cur[recs[i].id].vx = None
        /\ recs[i].vy = None => cur[recs[i].id].vy = None
        /\ recs[i].id \notin DOMAIN prev

----------------------------------------------------------------------------------------------------------------------------------------
(* Properties of target acquisition *)

\* the candidates the controller holds, as a set
CtrlCandidates == {c.enemies[i] : i \in 1..Len(c.enemies)}

\* the candidates within the detection radius R of the point o
Within(cands, o, R) == {e \in cands : Dist2(e.x, e.y, o[1], o[2]) <= R * R}

\* those of them no farther from o than any other
Nearest(cands, o, R) ==
    {e \in Within(cands, o, R) :
        \A f \in Within(cands, o, R) :
            Dist2(e.x, e.y, o[1], o[2]) <= Dist2(f.x, f.y, o[1], o[2])}

\* the selection is one of the nearest candidates in range, and is empty
\* only when no candidate is in range
SelectsNearest(sel, cands, o, R) ==
    IF Within(cands, o, R) = {} THEN sel = None
    ELSE sel # None /\ sel[1] \in {e.id : e \in Nearest(cands, o, R)}

\* mobs are encountered after players: a mob among the nearest is preferred
\* to an equally close player
MobsLast(sel, cands, o, R) ==
    (\E e \in Nearest(cands, o, R) : e.id[1] = "m") => sel # None /\ sel[1][1] = "m"

\* the controller's list is scanned front to back and an equally close
\* candidate replaces the running best: the last of the nearest is selected
CtrlLastOfNearest(sel) ==
    LET N == {i \in 1..Len(c.enemies) :
                 c.enemies[i] \in Nearest(CtrlCandidates, CtrlOrbit(c), AIM_DETECT_R)}
    IN  N # {} => sel = Some(c.enemies[CHOOSE i \in N : \A j \in N : j <= i].id)

\* the lock steps that keep no lock
CtrlScans ==
    /\ last'.op = "pair_tick" /\ last'.arg.ctrl.ran
    /\ ~(c.lock_target_id # None /\ c.lock_target_id[1] \in CtrlInRange)

AimScans ==
    /\ AimLockStep
    /\ ~(aim.target_id # None /\ aim.target_id[1] \in AimInRange)

NetScans == last'.op = "pair_tick" /\ last'.arg.net.ran

\* C26: when no lock is kept, the candidate selected is within the detection
\* radius of the orbit point and no candidate within it is closer; no
\* candidate is selected only when none is within the radius; among equally
\* close candidates the order of encounter decides (players before mobs, the
\* controller's list front to back, the later one winning), on the
\* controller, on the input tick of the main client and on its aim circle
C26_NearestInRange ==
    [][/\ CtrlScans
            => /\ SelectsNearest(c'.lock_target_id, CtrlCandidates, CtrlOrbit(c), AIM_DETECT_R)
               /\ CtrlLastOfNearest(c'.lock_target_id)
       /\ NetScans
            => /\ SelectsNearest(last'.arg.net.target, NetCandidates, NetOrbit(s), detect_r)
               /\ MobsLast(last'.arg.net.target, NetCandidates, NetOrbit(s), detect_r)
       /\ AimScans
            => /\ SelectsNearest(aim'.target_id, NetCandidates, AimOrbit(s), AUTO_AIM_DETECT_R)
               /\ MobsLast(aim'.target_id, NetCandidates, AimOrbit(s), AUTO_AIM_DETECT_R)]_vars

\* a tick that started without a lock, with player "a" and mob "a" equally
\* close to the orbit point: both the controller and the main client chose
\* the mob, which is encountered last
C26_Witness ==
    /\ last.op = "pair_tick"
    /\ last.arg.ctrl.ran /\ last.arg.net.ran
    /\ last.arg.ctrl.before = None
    /\ Cardinality(Nearest(CtrlCandidates, CtrlOrbit(c), AIM_DETECT_R)) = 2
    /\ c.lock_target_id = Some(<<"m", "a">>)
    /\ last.arg.net.target = Some(<<"m", "a">>)

\* the frames of a tick, by the channel they are handed to
FramesTo(frames, to) == {frames[i] : i \in {j \in DOMAIN frames : frames[j].to = to}}

\* the controller's joystick projection: own position + offset * scale
CtrlRawAim(cs) ==
    <<cs.player_x + cs.joystick_dx * JOYSTICK_SCALE,
      cs.player_y + cs.joystick_dy * JOYSTICK_SCALE>>

\* the pointer of the main client projected to world space, as it is
\* written to the frame
NetRawAim(st) ==
    LET rx == RawAim(st.mouse_x, st.screen_w, st.cam_zoom, st.cam_x)
        ry == RawAim(st.mouse_y, st.screen_h, st.cam_zoom, st.cam_y)
    IN  <<Sat(Round(rx[1], rx[2]), -32768, 32767), Sat(Round(ry[1], ry[2]), -32768, 32767)>>

\* a heading captured at boost start is held
CtrlHeadingHeld(cs) == cs.boosting /\ cs.boost_locked_r # None

NetHeadingHeld(st) == st.shift_pressed /\ st.hyperspace_locked_r # None

\* the ticks whose target selection ran with no candidate in range
CtrlNoneInRange ==
    /\ last'.op = "pair_tick" /\ last'.arg.ctrl.ran
    /\ Within(CtrlCandidates, CtrlOrbit(c), AIM_DETECT_R) = {}

NetNoneInRange ==
    /\ last'.op = "pair_tick" /\ last'.arg.net.ran
    /\ Within(NetCandidates, NetOrbit(s), detect_r) = {}

AimNoneInRange ==
    /\ AimLockStep
    /\ Within(NetCandidates, AimOrbit(s), AUTO_AIM_DETECT_R) = {}

\* the lock ids are cleared: by the controller's tick, by the aim circle of
\* the main client (its input tick stores none), and by a controller tick
\* with the joystick inside its dead zone
LocksCleared ==
    /\ CtrlNoneInRange => c'.lock_target_id = None
    /\ AimNoneInRange => aim'.target_id = None
    /\ (last'.op = "pair_tick" /\ ~CtrlJoystickActive(c)) => c'.lock_target_id = None

----------------------------------------------------------------------------
(* The phase cycle has no end *)

InMatch == {"Countdown", "Playing", "Dead", "Result"}

Lobbies == {"Lobby", "MatchLobby"}

\* C28: no phase is terminal.  While the channel is open some message
\* changes the phase, whatever the phase is; in a session the back button
\* changes it even without the channel; from a match phase (Countdown,
\* Playing, Dead, Result) a message leads to Lobby or MatchLobby, and from
\* Lobby and MatchLobby a message leads to a match phase
C28_NoTerminalPhase ==
    /\ ChannelOpen(net.ws) => ENABLED (NextCycle /\ s'.phase # s.phase)
    /\ (boot.mounted /\ s.phase # "Lobby") => ENABLED (PopState /\ s'.phase = "Lobby")
    /\ (ChannelOpen(net.ws) /\ s.phase \in InMatch)
          => ENABLED (MatchPhaseCycle /\ s'.phase \in Lobbies)
    /\ (ChannelOpen(net.ws) /\ s.phase \in Lobbies)
          => ENABLED (NextCycle /\ s'.phase \in InMatch)

\* the machine has been in Dead, has returned to MatchLobby and has just
\* re-entered the match phases with a countdown
C28_Witness ==
    /\ last.op = "match_phase"
    /\ last.arg.from = "MatchLobby"
    /\ s.phase = "Countdown"
    /\ s.death_info # None

----------------------------------------------------------------------------
(* Properties of the camera *)

\* two interpolated values taken at the same factor are equal
SameValue(a, b) == (a.from - b.from) * a.t[2] + (a.diff - b.diff) * a.t[1] = 0

\* C31: on every frame drawn while the local player has a record in the
\* current collection, the interpolated camera position equals the
\* interpolated position of the local player (the interpolation of its
\* previous and current positions, or its current position when it has no
\* previous record)
C31_CameraFollowsPlayer ==
    [][(/\ last'.op = "render"
        /\ s.my_id # None
        /\ s.my_id[1] \in DOMAIN s.players)
          => LET pose == RenderPose(s.players, s.prev_players, s.my_id[1], last'.arg.t)
             IN  /\ SameValue(last'.arg.cam.x, pose.x)
                 /\ SameValue(last'.arg.cam.y, pose.y)]_vars

----------------------------------------------------------------------------
(* network.rs: the RefCell borrows of the shared state within one handler *)

\* the borrow operations and side-effect calls of the handler that ran
\* last, in program order: "borrow_mut" and "drop" open and close a
\* mutable borrow of the shared state (a guard bound by let is dropped at
\* the end of its block, a temporary at the end of its statement)
HandlerTrace ==
    IF last.op = "welcome"
    THEN <<"borrow_mut", "phase_signal.set", "drop">>                   \* lines 365-373
    ELSE IF last.op = "joined"
    THEN <<"borrow_mut", "push_state", "drop">>                         \* lines 375-386
    ELSE IF last.op = "created"
    THEN <<"push_state", "borrow_mut", "drop", "borrow_mut", "drop", "send">>  \* lines 388-399
    ELSE IF last.op \in {"death", "match_result"}
    THEN <<"borrow_mut", "phase_signal.set", "drop">>                   \* lines 468-474, 541-547
    ELSE IF last.op = "match_phase"
    THEN IF last.arg.mp.phase = 0 /\ GameModeFromI32(last.arg.mp.mode) = "FFA"
         THEN <<"borrow_mut", "phase_signal.set", "push_state", "drop", "send">>  \* lines 503-515
         ELSE IF last.arg.mp.phase \in {0, 1, 2, 3}
         THEN <<"borrow_mut", "phase_signal.set", "drop">>              \* lines 516-536
         ELSE <<"borrow_mut", "drop">>                                  \* line 537
    ELSE IF last.op = "handle_state"
    THEN IF s.phase # h.phase_before
         THEN <<"borrow_mut", "phase_signal.set", "drop">>              \* lines 724, 813-819
         ELSE <<"borrow_mut", "drop">>
    ELSE << >>

SideEffectCalls == {"phase_signal.set", "push_state", "send"}

\* the number of borrows open just before position i of a trace
RECURSIVE OpenBorrows(_, _)
OpenBorrows(trace, i) ==
    IF i <= 1 THEN 0
    ELSE OpenBorrows(trace, i - 1)
         + (IF trace[i - 1] = "borrow_mut" THEN 1 ELSE IF trace[i - 1] = "drop" THEN -1 ELSE 0)

\* C32: no handler of an inbound message calls a side effect (setting the
\* phase signal, pushing a history entry, sending a command) while it holds
\* a mutable borrow of the shared state
C32_NoBorrowAcrossSideEffect ==
    \A i \in DOMAIN HandlerTrace :
        HandlerTrace[i] \in SideEffectCalls => OpenBorrows(HandlerTrace, i) = 0

----------------------------------------------------------------------------
(* Properties of the order of snapshots *)

\* the records of an incoming array are the current records of a map, up to
\* the velocity carried forward
Installed(arr, map) ==
    /\ DOMAIN map = {arr[i].id : i \in 1..Len(arr)}
    /\ \A i \in 1..Len(arr) :
          /\ map[arr[i].id].x = arr[i].x
          /\ map[arr[i].id].y = arr[i].y
          /\ map[arr[i].id].a = arr[i].a

\* C33: every snapshot handled is installed, whatever its tick: after the
\* step the stored tick is the incoming tick, the incoming players and mobs
\* are the current ones and the former current ones are the previous ones,
\* also when the incoming tick is lower than or equal to the stored tick
C33_InstalledInArrivalOrder ==
    [][last'.op = "handle_state" =>
          /\ s'.tick = last'.arg.tick
          /\ Installed(last'.arg.p, s'.players)
          /\ Installed(last'.arg.m, s'.mobs)
          /\ s'.prev_players = s.players
          /\ s'.prev_mobs = s.mobs]_vars

\* the snapshot of tick 1 was installed over the snapshot of tick 3
C33_Witness ==
    /\ last.op = "handle_state"
    /\ last.arg.tick = 1
    /\ s.tick = 1
    /\ "a" \in DOMAIN s.prev_players /\ s.prev_players["a"].x = 30
    /\ "a" \in DOMAIN s.players /\ s.players["a"].x = 10

----------------------------------------------------------------------------
(* Properties of create-then-join *)

\* C34: a create saves the name entered (or "Pilot" for a blank field);
\* every created message handled stores its session id as url_session_id,
\* sends exactly one join for that session id carrying the saved name, or
\* "Pilot" when none is saved, and leaves no name saved
C34_CreateThenJoin ==
    [][/\ last'.op = "on_create"
            => s'.pending_name = Some(last'.arg.name)
       /\ last'.op = "created"
            => /\ s'.url_session_id = Some(last'.arg.sid)
               /\ s'.pending_name = None
               /\ out' = <<Envelope("join",
                             [name |-> IF s.pending_name # None THEN s.pending_name[1]
                                       ELSE "Pilot",
                              sid |-> last'.arg.sid])>>]_vars

\* a second created message arrived with no create in between: the first
\* had stored session "s1" and taken the name, the join for "s2" carries
\* "Pilot"
C34_Witness ==
    /\ last.op = "created"
    /\ last.arg.sid = "s2"
    /\ last.arg.url = Some("s1")
    /\ last.arg.pending = None
    /\ out = <<Envelope("join", [name |-> "Pilot", sid |-> "s2"])>>

----------------------------------------------------------------------------
(* Properties of the interval estimate *)

\* C35: the smoothed interval n / (100 * 5^k) ms is strictly between 10 and
\* 200 ms in every state, hence positive, and the interpolation factor of
\* every frame drawn is a fraction with a positive denominator between 0
\* and 1 inclusive
C35_IntervalInRange ==
    /\ s.interp_interval.n > ELAPSED_MIN * 100 * Pow5(s.interp_interval.k)
    /\ s.interp_interval.n < ELAPSED_MAX * 100 * Pow5(s.interp_interval.k)
    /\ last.op = "render"
          => /\ last.arg.t[2] > 0
             /\ 0 <= last.arg.t[1]
             /\ last.arg.t[1] <= last.arg.t[2]

\* the estimate has folded two samples and the frame drawn 200 ms after
\* the last apply has factor 1
C35_Witness ==
    /\ s.interp_interval.k = 2
    /\ last.op = "render"
    /\ now = s.interp_last_update + ELAPSED_MAX
    /\ last.arg.t = <<1, 1>>

----------------------------------------------------------------------------
(* Properties of entering Dead *)

\* C36: every step that takes the phase to Dead starts in Playing, and
\* leaves my_id set
C36_DeadOnlyFromPlaying ==
    [][(s'.phase = "Dead" /\ s.phase # "Dead")
          => (s.phase = "Playing" /\ s'.my_id # None)]_vars

----------------------------------------------------------------------------
(* Properties of the phase signal *)

\* C37: in every state (that is, after every handler: message, snapshot,
\* back navigation) the phase signal shown to the UI equals the phase of
\* the shared game state
C37_SignalMatchesPhase == phase_signal = s.phase

\* a snapshot with the own ship inactive has just moved both from Playing
\* to Dead
C37_Witness ==
    /\ last.op = "handle_state"
    /\ h.phase_before = "Playing"
    /\ s.phase = "Dead"
    /\ phase_signal = "Dead"

----------------------------------------------------------------------------
(* Properties of the input timer after the session is left *)

\* C40: from the return to the session lobby (match_phase lobby of a
\* free-for-all, or back navigation out of a session) until the next
\* welcome, no tick of the input timer transmits a frame, whatever messages
\* and snapshots arrive in between
C40_QuietAfterLeaving ==
    [][(h.left_session /\ last'.op = "send_input") => out' = << >>]_vars

\* a tick in phase Playing, reached by a match_phase message after the
\* session was left, with the channel open and the own ship in the last
\* snapshot: nothing was sent
C40_Witness ==
    /\ last.op = "send_input"
    /\ h.left_session
    /\ s.phase = "Playing"
    /\ ChannelOpen(net.ws)
    /\ Me \in DOMAIN s.players
    /\ out = << >>

----------------
(* Reconnect: both clients with their channel events and the timer queue *)

NextConn ==
    \/ NetConnect \/ NetWsOpen \/ NetWsClose \/ NetWsError
    \/ CtrlConnect \/ CtrlWsOpen \/ CtrlWsClose \/ CtrlWsError
    \/ TimeoutFire

SpecConn == Init /\ [][NextConn]_vars

----------------------------------------------------------------------------
(* The controller's send loops over closes, reconnects and control_ok
   messages *)

\* a control_ok message; the loops started are counted up to a bound
CtrlControlOkCounted == boot.ctrl_loops < MaxLoopsCounted /\ CtrlControlOkEff

NextLoop ==
    \/ CtrlConnect \/ CtrlWsOpen \/ CtrlWsClose \/ TimeoutFire
    \/ CtrlControlOkCounted \/ CtrlSendInput
    \/ CtrlJoystickDown \/ CtrlJoystickMove \/ CtrlJoystickUp

SpecLoop == Init /\ [][NextLoop]_vars

\* C39: at most one send loop of the controller is active, over any number
\* of closes, reconnects and control_ok messages; a tick sends only while
\* connected and attached are both true; a close resets attached, and only
\* a control_ok sets it again
C39_OneSendLoop ==
    [][/\ boot'.ctrl_loops <= 1
       /\ (last'.op = "ctrl_send_input" /\ out' # << >>) => (c.connected /\ c.attached)
       /\ last'.op = "ctrl_close" => ~c'.attached
       /\ (~c.attached /\ c'.attached) => last'.op = "control_ok"]_vars

\* the clauses of C39 other than the number of loops
SendsOnlyAttached ==
    [][/\ (last'.op = "ctrl_send_input" /\ out' # << >>) => (c.connected /\ c.attached)
       /\ last'.op = "ctrl_close" => ~c'.attached
       /\ (~c.attached /\ c'.attached) => last'.op = "control_ok"]_vars

NetClosed == net.ws # None /\ net.ws[1].ready = CLOSED

NetReconnectPending == \E i \in 1..Len(timers) : timers[i].cb = "Network::connect"

\* C5: when the main client's channel closes, connected is false at once and
\* a reconnect is pending (a Timeout that will run Network::connect) until a
\* new channel object is installed; the client is never left disconnected
\* with no reconnect attempt pending or in progress.
C5_ReconnectAfterClose ==
    NetClosed => (~s.connected /\ NetReconnectPending)

\* C6: every close event schedules exactly one reconnect with the fixed
\* delay on both clients, connect attempts never exceed close events plus
\* one, and the installed channel is the most recently created one.
C6_OneReconnectPerClose ==
    /\ h.net_sched = h.net_closes
    /\ h.ctl_sched = h.ctl_closes
    /\ \A i \in 1..Len(timers) : timers[i].delay = RECONNECT_DELAY
    /\ h.net_connects <= h.net_closes + 1
    /\ h.ctl_connects <= h.ctl_closes + 1
    /\ (net.ws # None => net.ws[1].id = h.net_connects)
    /\ (c.ws # None => c.ws[1].id = h.ctl_connects)

====
